---- MODULE Spec2Model ----
\* A model of the tap PTY host (crates/tap-server/src/lib.rs), its socket
\* protocol and its session registry, with the CLI wrapper that decides when
\* the host process exits (crates/tap/src/main.rs).
EXTENDS Integers, Sequences, FiniteSets, TLC

\* ------------------------------------------------------------------ bounds

\* Socket connections a run may open.
NumConns == 2
\* Requests the peers send in a run, over all connections.
MaxReqs == 2
\* Output batches the child writes to the PTY slave in a run of the session
\* specification, and in a run of the dispatch specification.
SessionBatches == 1
DispatchBatches == 2
\* Requests sent in a run of the framing specification, where an attached
\* client goes on typing.
AttachedReqs == 3
\* Hosts sharing one registry file (RegSpec).
NumHosts == 2
\* The lag specification: the batches the child writes, and the capacity its
\* broadcast channel is given in place of BROADCAST_CHANNEL_SIZE.
LagBatches == 3
LagCapacity == 1
\* The input specification: stdin reads in a run, and the escape timeout in
\* ticks of the model's clock.
MaxReads == 2
EscapeTicks == 2
\* The screen specification: appends in a run, and the emulator's rows and
\* scrollback lines scaled down from DEFAULT_TERMINAL_ROWS and
\* DEFAULT_SCROLLBACK_LINES.
MaxPushes == 5
ScreenRows == 2
ScrollbackLines == 3
MaxQueries == 2
\* The classifier specification: calls of process and timeout_escape in a run.
MaxCalls == 3
\* Results a wait on the child is given before the one that reports its end.
MaxWaitRetries == 2

Conns == 1..NumConns

\* The id of the one session the protocol model follows.
SessionId == "s1"

\* ------------------------------------------------------- program constants

BROADCAST_CHANNEL_SIZE == 1024

ESC_BYTE == 27

\* The window size a --detached start opens the PTY with (lib.rs:451-456);
\* an attached start takes the real terminal's, modelled as the same value.
DefaultWinsize == <<24, 80>>
\* The rows and cols peers put in Attach and Resize requests.
AttachWinsize == <<30, 100>>
ResizeWinsize == <<40, 120>>

\* attached_client holding None.
NoClient == 0

\* Nothing has been written to a connection yet.
NoMsg == [type |-> "none", v |-> 0]

RequestTypes ==
    {"get_scrollback", "get_cursor", "inject", "get_size", "subscribe",
     "attach", "input", "resize"}

\* What a peer may write as one message: a well-formed request, or bytes that
\* are not a request at all.
MessageTypes == RequestTypes \cup {"malformed"}

\* ----------------------------------------------------------------- state

VARIABLES
    cfgDetached,   \* ServerConfig.detached
    hpc,           \* position of run()/run_start() in the host process
    loop,          \* which loop owns the PTY master: none, attached, tail
    lstep,         \* the owning loop's position inside one iteration
    batch,         \* the master read batch the loop is working on
    procAlive,     \* the host process exists
    childAlive,    \* the child has not exited
    masterOpen,    \* the PTY master fd is open in the host process
    masterOut,     \* batches the child wrote, not yet read from the master
    produced,      \* number of batches the child has written
    plan,          \* number of batches the child writes in this run
    masterIn,      \* buffers written to the master, with the writing task
    inputQ,        \* the input channel (unbounded mpsc)
    enqueued,      \* every buffer ever sent on the input channel, in order
    parser,        \* SCROLLBACK.parser: absent before the first push
    sbWriter,      \* SCROLLBACK's write lock is held
    slot,          \* attached_client: NoClient, or the connection holding it
    session_ended, \* the session-ended flag
    registry,      \* contents of sessions.json (a list of entries)
    sockFile,      \* the session's socket file exists
    spc,           \* position of run_socket_server
    winsize,       \* the PTY window size
    nreq,          \* requests sent so far by all peers
    hs,            \* per connection: position of handle_json_client
    rs,            \* per connection: position of the attach reader task
    peerOpen,      \* per connection: the peer has not closed its end
    inb,           \* per connection: messages sent by the peer, unread
    bq,            \* per connection: its broadcast receiver's queue
    och,           \* per connection: its attach output channel
    last,          \* per connection: the last response or Output written to it
    sub,           \* per connection: Subscribed has been written to it
    fin,           \* per connection: SessionEnded has been written to it
    dropped,       \* per connection: well-formed requests its handler read
                   \* before any Attach and never answered
    cap,           \* the capacity the broadcast channel was created with
    lag,           \* per connection: its receiver has been overrun
    outs,          \* per connection: the broadcast batches written to it
    subAt,         \* per connection: batches broadcast before its Subscribed
    skipped,       \* per connection: messages that are no request, read by
                   \* its handler and passed over
    regHosts,      \* RegSpec: per host, its position in modify_sessions_file
    regOp,         \* RegSpec: per host, the closure it is applying
    regFile,       \* RegSpec: contents of the shared sessions.json
    regLock,       \* RegSpec: holder of the exclusive file lock, or 0
    regLocal,      \* RegSpec: per host, the list it read and is modifying
    regLive,       \* RegSpec: per host, new, live, detached or gone
    termPc,        \* TermSpec: position of the process that owns the terminal
    termMode,      \* TermSpec: the local terminal's line discipline
    orig_termios,  \* TermSpec: the saved termios is Some
    keyboard_enhanced, \* TermSpec: the keyboard protocol push succeeded
    kbFlags,       \* TermSpec: depth of the terminal's keyboard flag stack
    termBreak,     \* TermSpec: the branch that left the I/O loop
    exit_code,     \* TermSpec: the value the I/O loop broke with
    waits,         \* what waitpid on the child returns, call after call
    exit_status,   \* the status the host process exited with
    keybinds,      \* InputProcessor.keybinds
    pending_escape, \* InputProcessor.pending_escape
    classified,    \* the last stdin read, and what the classifier made of it
    elapsed,       \* ticks the escape timer of this select has been running
    nreads,        \* stdin reads (calls of the classifier) so far
    stream,        \* every byte given to process, every byte passed
                   \* through, and whether an Action was returned
    screen,        \* ScreenSpec: the emulator behind a ScrollbackBuffer
    pushes,        \* ScreenSpec: what has been appended to it, in order
    snap,          \* ScreenSpec: get_lines(None) as it was when the
                   \* alternate screen was entered from the main screen
    got            \* ScreenSpec: what the last query returned, and how many
                   \* queries were made since the last append

protoVars ==
    <<cfgDetached, hpc, loop, lstep, batch, procAlive, childAlive, masterOpen,
      masterOut, produced, plan, masterIn, inputQ, enqueued, parser,
      sbWriter, slot, session_ended, registry, sockFile, spc, winsize, nreq,
      hs, rs, peerOpen, inb, bq, och, last, sub, fin, dropped, cap, lag, outs,
      subAt, skipped>>

regVars == <<regHosts, regOp, regFile, regLock, regLocal, regLive>>

termVars ==
    <<termPc, termMode, orig_termios, keyboard_enhanced, kbFlags, termBreak,
      exit_code>>

exitVars == <<waits, exit_status>>

inputVars == <<keybinds, pending_escape, classified, elapsed, nreads, stream>>

screenVars == <<screen, pushes, snap, got>>

vars == <<protoVars, regVars, termVars, exitVars, inputVars, screenVars>>

\* ------------------------------------------------------------- scrollback
\* The emulator (the vt100 crate) is outside the repository. The protocol
\* model feeds it printable bytes only, for which the screen contents are the
\* bytes processed so far and the cursor stays on row 0, one column per byte.

NoParser == [some |-> FALSE, bytes |-> <<>>]

\* ScrollbackBuffer::new
NewScrollback == NoParser

\* ScrollbackBuffer::push: create the parser if absent, then process data.
Push(p, data) == [some |-> TRUE, bytes |-> p.bytes \o data]

\* ScrollbackBuffer::get_lines(None)
GetLines(p) == IF p.some THEN p.bytes ELSE <<>>

\* ScrollbackBuffer::cursor_position
CursorPosition(p) == IF p.some THEN <<0, Len(p.bytes)>> ELSE <<0, 0>>

\* A read lock that is granted whether or not a writer holds the lock.
ScrollbackReadableAlways == TRUE

\* SCROLLBACK.read(): a reader gets the lock only while no writer holds it.
ScrollbackReadable == ~sbWriter

\* The bytes of the n-th batch the child writes.
BatchBytes(n) == <<2 * n - 1, 2 * n>>

\* ---------------------------------------------------------------- registry

\* The closure run() passes to modify_sessions_file at startup.
InsertSession(sessions, id, attached) ==
    Append(sessions, [id |-> id, attached |-> attached])

\* The closure of both teardown paths: retain every other id.
RemoveSession(sessions, id) ==
    SelectSeq(sessions, LAMBDA s : s.id # id)

\* The closure run() passes after an interactive detach.
MarkDetached(sessions, id) ==
    [i \in DOMAIN sessions |->
        IF sessions[i].id = id
        THEN [sessions[i] EXCEPT !.attached = FALSE]
        ELSE sessions[i]]

Listed(sessions, id) == \E i \in DOMAIN sessions : sessions[i].id = id

\* ------------------------------------------------------------------- init

Hosts == 1..NumHosts

\* A sessions.json that does not exist yet or is empty, and one that holds a
\* JSON list.
EmptyFile == [json |-> FALSE, list |-> <<>>]
JsonFile(sessions) == [json |-> TRUE, list |-> sessions]

RegIdle ==
    /\ regHosts = [h \in Hosts |-> "idle"]
    /\ regOp = [h \in Hosts |-> "none"]
    /\ regFile = EmptyFile
    /\ regLock = 0
    /\ regLocal = [h \in Hosts |-> <<>>]
    /\ regLive = [h \in Hosts |-> "new"]

\* No process has touched the local terminal yet: it is in the mode the user's
\* shell left it in, with no keyboard enhancement flags pushed.
TermIdle ==
    /\ termPc = "start"
    /\ termMode = "cooked"
    /\ orig_termios = FALSE
    /\ keyboard_enhanced = FALSE
    /\ kbFlags = 0
    /\ termBreak = "none"
    /\ exit_code = 0

\* waitpid results. Exited and Signaled report the child's termination; a
\* stop is reported only for a child that has made the host its tracer;
\* EINTR is a signal to the host during the call; ECHILD is what the call
\* fails with when the child was reaped for it (SIGCHLD ignored).
WaitResult(kind, v) == [kind |-> kind, v |-> v]

\* The child exits 0 at the first wait.
PlainExit == <<WaitResult("Exited", 0)>>

\* A grid of the emulator: its rows of cells, the cursor and the saved cursor.
BlankGrid ==
    [rows |-> [r \in 1..ScreenRows |-> <<>>], pos |-> <<1, 1>>,
     saved |-> <<1, 1>>]

\* ScrollbackBuffer::new: no parser yet. The parser that the first push
\* creates has a blank main grid, a blank alternate grid and no scrollback.
NewScreen ==
    [some |-> FALSE, main |-> BlankGrid, alternate |-> BlankGrid,
     scrollback |-> <<>>, alt |-> FALSE]

\* No query has been made since the last append.
NoQuery == [call |-> "none", lines |-> <<>>, pos |-> <<0, 0>>, n |-> 0]

ScreenIdle ==
    /\ screen = NewScreen
    /\ pushes = <<>>
    /\ snap = [valid |-> FALSE, lines |-> <<>>]
    /\ got = NoQuery

\* InputProcessor::new with the default configuration, nothing read yet.
NoRead ==
    [call |-> "none", input |-> <<>>, pending |-> FALSE, kind |-> "none",
     bytes |-> <<>>]

InputIdle ==
    /\ pending_escape = FALSE
    /\ classified = NoRead
    /\ elapsed = 0
    /\ nreads = 0
    /\ stream = [fed |-> <<>>, passed |-> <<>>, acted |-> FALSE]

InitHost(batches, capacity, scripts) ==
    /\ plan = batches
    /\ waits \in scripts
    /\ exit_status = 0
    /\ cap = capacity
    /\ lag = [c \in Conns |-> FALSE]
    /\ outs = [c \in Conns |-> <<>>]
    /\ subAt = [c \in Conns |-> 0]
    /\ cfgDetached \in BOOLEAN
    /\ hpc = "init"
    /\ loop = "none"
    /\ lstep = "select"
    /\ batch = <<>>
    /\ procAlive = TRUE
    /\ childAlive = FALSE
    /\ masterOpen = FALSE
    /\ masterOut = <<>>
    /\ produced = 0
    /\ masterIn = <<>>
    /\ inputQ = <<>>
    /\ enqueued = <<>>
    /\ parser = NewScrollback
    /\ sbWriter = FALSE
    /\ slot = NoClient
    /\ session_ended = FALSE
    /\ registry = <<>>
    /\ sockFile = FALSE
    /\ spc = "none"
    /\ winsize = DefaultWinsize
    /\ nreq = 0
    /\ hs = [c \in Conns |-> "none"]
    /\ rs = [c \in Conns |-> "none"]
    /\ peerOpen = [c \in Conns |-> FALSE]
    /\ inb = [c \in Conns |-> <<>>]
    /\ bq = [c \in Conns |-> <<>>]
    /\ och = [c \in Conns |-> <<>>]
    /\ last = [c \in Conns |-> NoMsg]
    /\ sub = [c \in Conns |-> FALSE]
    /\ fin = [c \in Conns |-> FALSE]
    /\ dropped = [c \in Conns |-> 0]
    /\ skipped = [c \in Conns |-> 0]
    /\ RegIdle
    /\ TermIdle
    /\ InputIdle
    /\ ScreenIdle

\* The editor keybind of the default configuration: "Alt-e".
DefaultKeybinds == <<[kb |-> [mod |-> "Alt", c |-> 101], action |-> "OpenEditor"]>>

InitFor(batches, capacity, scripts) ==
    InitHost(batches, capacity, scripts) /\ keybinds = DefaultKeybinds

InitCap(batches, capacity) == InitFor(batches, capacity, {PlainExit})

\* The state after construction with the channel capacity run() gives it.
InitWith(batches) == InitCap(batches, BROADCAST_CHANNEL_SIZE)

\* ------------------------------------------------------------ host process

\* std::process::exit, and what the operating system does to the process's
\* resources: every task stops, the master fd and every socket close. The
\* socket file and the registry file are left as they are.
ProcessExit(how, code) ==
    /\ procAlive' = FALSE
    /\ exit_status' = code
    /\ hpc' = how
    /\ loop' = "none"
    /\ masterOpen' = FALSE
    /\ spc' = IF spc = "none" THEN "none" ELSE "dead"
    /\ hs' = [c \in Conns |->
                IF hs[c] \in {"none", "done"} /\ rs[c] # "run"
                THEN hs[c] ELSE "reset"]
    /\ rs' = [c \in Conns |-> IF rs[c] = "run" THEN "done" ELSE rs[c]]

\* The master read of either loop returns Ok(0) or Err: the child is gone and
\* everything it wrote has been read.
MasterEOF == ~childAlive /\ masterOut = <<>>

\* tokio broadcast Sender::send: one copy per live receiver; a full ring
\* overwrites its oldest message. A receiver is modelled while its handler
\* can still poll it (handle_json_client never polls it after an Attach).
Broadcast(data) ==
    [c \in Conns |->
        IF hs[c] = "select"
        THEN IF Len(bq[c]) < cap
             THEN Append(bq[c], data)
             ELSE Append(Tail(bq[c]), data)
        ELSE bq[c]]

\* The receivers a send overruns: the message it overwrites is one they have
\* not received, and their next recv returns Lagged.
Overrun == [c \in Conns |-> lag[c] \/ (hs[c] = "select" /\ Len(bq[c]) >= cap)]

\* The number of batches broadcast so far: every batch read from the master
\* but the one still being pushed.
Broadcasts ==
    produced - Len(masterOut) - (IF lstep = "push" THEN 1 ELSE 0)

\* run(), lib.rs:434-446: the session is registered before anything else.
HostRegister ==
    /\ procAlive /\ hpc = "init"
    /\ registry' = InsertSession(registry, SessionId, ~cfgDetached)
    /\ hpc' = "registered"
    /\ UNCHANGED <<cfgDetached, loop, lstep, batch, procAlive, childAlive,
                   masterOpen, masterOut, produced, plan, masterIn, inputQ,
                   enqueued, parser, sbWriter, slot, session_ended, sockFile,
                   spc, winsize, nreq, hs, rs, peerOpen, inb, bq, och, last,
                   sub, fin, dropped, cap, lag, outs, subAt, skipped, regVars,
                   termVars, exitVars, inputVars, screenVars>>

\* run(), lib.rs:448-644: openpty, fork, the channels, the socket server
\* task, and then either the tail task (--detached: run() returns and
\* run_start sleeps forever) or the attached main loop.
HostStart ==
    /\ procAlive /\ hpc = "registered"
    /\ masterOpen' = TRUE
    /\ childAlive' = TRUE
    /\ winsize' = DefaultWinsize
    /\ spc' = "bind"
    /\ loop' = IF cfgDetached THEN "tail" ELSE "attached"
    /\ hpc' = IF cfgDetached THEN "sleeping" ELSE "loop"
    /\ lstep' = "select"
    /\ UNCHANGED <<cfgDetached, batch, procAlive, masterOut, produced, plan,
                   masterIn, inputQ, enqueued, parser, sbWriter, slot,
                   session_ended, registry, sockFile, nreq, hs, rs, peerOpen,
                   inb, bq, och, last, sub, fin, dropped, cap, lag, outs,
                   subAt, skipped, regVars, termVars, exitVars, inputVars,
                   screenVars>>

\* The steps of run() between the registration and the fork that can return
\* an error: openpty (lib.rs:460-461), installing the SIGWINCH handler when
\* attached (lib.rs:479-483) and fork (lib.rs:520-522). MASTER_FD.set
\* (lib.rs:466-468) fails only in a process that has called run() before,
\* which the command line never does.
StartFailures(detached) ==
    {"openpty", "fork"} \cup (IF detached THEN {} ELSE {"sigwinch"})

\* run(), lib.rs:448-520, and main.rs:91: one of those steps fails; run()
\* returns the error at once, run_start passes it on and the process exits
\* with status 1. No child has been started.
HostStartFails(step) ==
    /\ procAlive /\ hpc = "registered"
    /\ step \in StartFailures(cfgDetached)
    /\ ProcessExit("start_failed", 1)
    /\ UNCHANGED <<cfgDetached, lstep, batch, childAlive, masterOut, produced,
                   plan, masterIn, inputQ, enqueued, parser, sbWriter, slot,
                   session_ended, registry, sockFile, winsize, nreq, peerOpen,
                   inb, bq, och, last, sub, fin, dropped, cap, lag, outs,
                   subAt, skipped, regVars, termVars, waits, inputVars,
                   screenVars>>

\* The child writes one batch to the PTY slave.
ChildWrite ==
    /\ childAlive /\ masterOpen /\ produced < plan
    /\ produced' = produced + 1
    /\ masterOut' = Append(masterOut, BatchBytes(produced + 1))
    /\ UNCHANGED <<cfgDetached, hpc, loop, lstep, batch, procAlive, childAlive,
                   masterOpen, plan, masterIn, inputQ, enqueued, parser,
                   sbWriter, slot, session_ended, registry, sockFile, spc,
                   winsize, nreq, hs, rs, peerOpen, inb, bq, och, last, sub,
                   fin, dropped, cap, lag, outs, subAt, skipped, regVars,
                   termVars, exitVars, inputVars, screenVars>>

\* The child exits (of its own accord, or on the hangup a closed master sends).
ChildExit ==
    /\ childAlive
    /\ childAlive' = FALSE
    /\ UNCHANGED <<cfgDetached, hpc, loop, lstep, batch, procAlive, masterOpen,
                   masterOut, produced, plan, masterIn, inputQ, enqueued,
                   parser, sbWriter, slot, session_ended, registry, sockFile,
                   spc, winsize, nreq, hs, rs, peerOpen, inb, bq, och, last,
                   sub, fin, dropped, cap, lag, outs, subAt, skipped, regVars,
                   termVars, exitVars, inputVars, screenVars>>

\* Both loops, lib.rs:648-655 and 839-846: a master read returns a batch and
\* the loop takes SCROLLBACK's write lock and starts feeding the emulator.
LoopReadBatch ==
    /\ procAlive /\ loop \in {"attached", "tail"} /\ lstep = "select"
    /\ masterOut # <<>>
    /\ ~sbWriter
    /\ batch' = Head(masterOut)
    /\ masterOut' = Tail(masterOut)
    /\ sbWriter' = TRUE
    /\ parser' = Push(parser, <<Head(masterOut)[1]>>)
    /\ lstep' = "push"
    /\ UNCHANGED <<cfgDetached, hpc, loop, procAlive, childAlive, masterOpen,
                   produced, plan, masterIn, inputQ, enqueued, slot,
                   session_ended, registry, sockFile, spc, winsize, nreq, hs,
                   rs, peerOpen, inb, bq, och, last, sub, fin, dropped, cap,
                   lag, outs, subAt, skipped, regVars, termVars, exitVars,
                   inputVars, screenVars>>

\* lib.rs:655-664 and 846-849: the push completes and releases the lock, the
\* batch is broadcast, and the attached loop writes it to stdout; the tail
\* loop goes on to the attach slot.
LoopPushed ==
    /\ procAlive /\ loop \in {"attached", "tail"} /\ lstep = "push"
    /\ parser' = Push(parser, Tail(batch))
    /\ sbWriter' = FALSE
    /\ bq' = Broadcast(batch)
    /\ lag' = Overrun
    /\ lstep' = IF loop = "tail" THEN "slot" ELSE "select"
    /\ batch' = IF loop = "tail" THEN batch ELSE <<>>
    /\ UNCHANGED <<cfgDetached, hpc, loop, procAlive, childAlive, masterOpen,
                   masterOut, produced, plan, masterIn, inputQ, enqueued, slot,
                   session_ended, registry, sockFile, spc, winsize, nreq, hs,
                   rs, peerOpen, inb, och, last, sub, fin, dropped, cap, outs,
                   subAt, skipped, regVars, termVars, exitVars, inputVars,
                   screenVars>>

\* run_pty_loop_detached, lib.rs:851-854: under the slot's mutex, post the
\* batch to the occupant's output channel, if there is an occupant.
TailSlotSend ==
    /\ procAlive /\ loop = "tail" /\ lstep = "slot"
    /\ och' = IF slot # NoClient /\ hs[slot] \in {"claimed", "fwd"}
              THEN [och EXCEPT ![slot] = Append(@, batch)]
              ELSE och
    /\ batch' = <<>>
    /\ lstep' = "select"
    /\ UNCHANGED <<cfgDetached, hpc, loop, procAlive, childAlive, masterOpen,
                   masterOut, produced, plan, masterIn, inputQ, enqueued,
                   parser, sbWriter, slot, session_ended, registry, sockFile,
                   spc, winsize, nreq, hs, rs, peerOpen, inb, bq, last, sub,
                   fin, dropped, cap, lag, outs, subAt, skipped, regVars,
                   termVars, exitVars, inputVars, screenVars>>

\* A receive that hands out the newest buffer instead of the oldest.
InputRecvNewest(q) == [data |-> q[Len(q)], rest |-> SubSeq(q, 1, Len(q) - 1)]

\* mpsc UnboundedReceiver::recv: the oldest buffer and the rest.
InputRecv(q) == [data |-> Head(q), rest |-> Tail(q)]

\* Both loops, lib.rs:735-739 and 862-865: a buffer from the input channel is
\* written to the master by the loop that owns it.
LoopInput ==
    /\ procAlive /\ loop \in {"attached", "tail"} /\ lstep = "select"
    /\ inputQ # <<>>
    /\ inputQ' = InputRecv(inputQ).rest
    /\ masterIn' = Append(masterIn,
                     [by |-> loop, data |-> InputRecv(inputQ).data])
    /\ UNCHANGED <<cfgDetached, hpc, loop, lstep, batch, procAlive, childAlive,
                   masterOpen, masterOut, produced, plan, enqueued, parser,
                   sbWriter, slot, session_ended, registry, sockFile, spc,
                   winsize, nreq, hs, rs, peerOpen, inb, bq, och, last, sub,
                   fin, dropped, cap, lag, outs, subAt, skipped, regVars,
                   termVars, exitVars, inputVars, screenVars>>

\* Attached loop, lib.rs:719-723: the Detach keybind ends the loop with
\* detached = true.
AttachedDetachKey ==
    /\ procAlive /\ loop = "attached" /\ lstep = "select"
    /\ loop' = "none"
    /\ hpc' = "detaching"
    /\ UNCHANGED <<cfgDetached, lstep, batch, procAlive, childAlive,
                   masterOpen, masterOut, produced, plan, masterIn, inputQ,
                   enqueued, parser, sbWriter, slot, session_ended, registry,
                   sockFile, spc, winsize, nreq, hs, rs, peerOpen, inb, bq,
                   och, last, sub, fin, dropped, cap, lag, outs, subAt,
                   skipped, regVars, termVars, exitVars, inputVars, screenVars>>

\* Attached loop, lib.rs:650 and 666-669: the master read returns Ok(0) or an
\* error; the loop breaks with detached = false.
AttachedMasterEOF ==
    /\ procAlive /\ loop = "attached" /\ lstep = "select"
    /\ MasterEOF
    /\ loop' = "none"
    /\ hpc' = "rm_socket"
    /\ UNCHANGED <<cfgDetached, lstep, batch, procAlive, childAlive,
                   masterOpen, masterOut, produced, plan, masterIn, inputQ,
                   enqueued, parser, sbWriter, slot, session_ended, registry,
                   sockFile, spc, winsize, nreq, hs, rs, peerOpen, inb, bq,
                   och, last, sub, fin, dropped, cap, lag, outs, subAt,
                   skipped, regVars, termVars, exitVars, inputVars, screenVars>>

\* Attached loop, lib.rs:674 and 729-732: stdin returns Ok(0) or an error;
\* the loop breaks with detached = false although the child may be running.
AttachedStdinEOF ==
    /\ procAlive /\ loop = "attached" /\ lstep = "select"
    /\ loop' = "none"
    /\ hpc' = "rm_socket"
    /\ UNCHANGED <<cfgDetached, lstep, batch, procAlive, childAlive,
                   masterOpen, masterOut, produced, plan, masterIn, inputQ,
                   enqueued, parser, sbWriter, slot, session_ended, registry,
                   sockFile, spc, winsize, nreq, hs, rs, peerOpen, inb, bq,
                   och, last, sub, fin, dropped, cap, lag, outs, subAt,
                   skipped, regVars, termVars, exitVars, inputVars, screenVars>>

\* run(), lib.rs:752-801: after a detach the terminal is restored, the
\* registry entry is marked attached = false, the master and the input
\* receiver move to a spawned run_pty_loop_detached, and run() returns
\* RunResult::Detached.
HostDetach ==
    /\ procAlive /\ hpc = "detaching"
    /\ registry' = MarkDetached(registry, SessionId)
    /\ loop' = "tail"
    /\ lstep' = "select"
    /\ hpc' = "detach_returned"
    /\ UNCHANGED <<cfgDetached, batch, procAlive, childAlive, masterOpen,
                   masterOut, produced, plan, masterIn, inputQ, enqueued,
                   parser, sbWriter, slot, session_ended, sockFile, spc,
                   winsize, nreq, hs, rs, peerOpen, inb, bq, och, last, sub,
                   fin, dropped, cap, lag, outs, subAt, skipped, regVars,
                   termVars, exitVars, inputVars, screenVars>>

\* run_start, main.rs:93-104: on RunResult::Detached of a start that was not
\* --detached, print the reattach hint and std::process::exit(0).
RunStartDetachedExit ==
    /\ procAlive /\ hpc = "detach_returned"
    /\ ProcessExit("detach_exited", 0)
    /\ UNCHANGED <<cfgDetached, lstep, batch, childAlive, masterOut, produced,
                   plan, masterIn, inputQ, enqueued, parser, sbWriter, slot,
                   session_ended, registry, sockFile, winsize, nreq, peerOpen,
                   inb, bq, och, last, sub, fin, dropped, cap, lag, outs,
                   subAt, skipped, regVars, termVars, waits, inputVars,
                   screenVars>>

\* Attached loop, lib.rs:679-696: stdin bytes classified as passthrough are
\* translated and written to the master; the write fails and the loop breaks
\* with 1, detached = false. Nothing here looks at the child.
AttachedMasterWriteError ==
    /\ procAlive /\ loop = "attached" /\ lstep = "select"
    /\ loop' = "none"
    /\ hpc' = "rm_socket"
    /\ termBreak' = "master_write_error"
    /\ exit_code' = 1
    /\ UNCHANGED <<cfgDetached, lstep, batch, procAlive, childAlive,
                   masterOpen, masterOut, produced, plan, masterIn, inputQ,
                   enqueued, parser, sbWriter, slot, session_ended, registry,
                   sockFile, spc, winsize, nreq, hs, rs, peerOpen, inb, bq,
                   och, last, sub, fin, dropped, cap, lag, outs, subAt,
                   skipped, regVars, termPc, termMode, orig_termios,
                   keyboard_enhanced, kbFlags, exitVars, inputVars, screenVars>>

\* run(), lib.rs:804-805: teardown removes the socket file,
HostRemoveSocket ==
    /\ procAlive /\ hpc = "rm_socket"
    /\ sockFile' = FALSE
    /\ hpc' = "rm_entry"
    /\ UNCHANGED <<cfgDetached, loop, lstep, batch, procAlive, childAlive,
                   masterOpen, masterOut, produced, plan, masterIn, inputQ,
                   enqueued, parser, sbWriter, slot, session_ended, registry,
                   spc, winsize, nreq, hs, rs, peerOpen, inb, bq, och, last,
                   sub, fin, dropped, cap, lag, outs, subAt, skipped, regVars,
                   termVars, exitVars, inputVars, screenVars>>

\* lib.rs:807-810: then the registry entry,
HostRemoveEntry ==
    /\ procAlive /\ hpc = "rm_entry"
    /\ registry' = RemoveSession(registry, SessionId)
    /\ hpc' = "wait"
    /\ UNCHANGED <<cfgDetached, loop, lstep, batch, procAlive, childAlive,
                   masterOpen, masterOut, produced, plan, masterIn, inputQ,
                   enqueued, parser, sbWriter, slot, session_ended, sockFile,
                   spc, winsize, nreq, hs, rs, peerOpen, inb, bq, och, last,
                   sub, fin, dropped, cap, lag, outs, subAt, skipped, regVars,
                   termVars, exitVars, inputVars, screenVars>>

\* A wait_for_child that returns a signalled child's bare signal number.
WaitForChildBare(w) ==
    LET r == CHOOSE i \in 1..Len(w) :
                /\ w[i].kind \notin {"Stopped", "EINTR"}
                /\ \A j \in 1..(i - 1) : w[j].kind \in {"Stopped", "EINTR"}
    IN  IF w[r].kind \in {"Exited", "Signaled"} THEN w[r].v ELSE 1

\* wait_for_child, lib.rs:383-393, over the results its waitpid calls get.
RECURSIVE WaitForChild(_)
WaitForChild(w) ==
    CASE Head(w).kind = "Exited" -> Head(w).v
      [] Head(w).kind = "Signaled" -> 128 + Head(w).v
      [] Head(w).kind = "Stopped" -> WaitForChild(Tail(w))
      [] Head(w).kind = "EINTR" -> WaitForChild(Tail(w))
      [] OTHER -> 1

\* wait_for_child returns: some call gets a result the loop does not retry.
WaitReturns(w) == \E i \in 1..Len(w) : w[i].kind \notin {"Stopped", "EINTR"}

\* lib.rs:814-818: the value run() returns from the child's code and the
\* loop's.
RunExited(final_code, code) ==
    IF final_code = 0 /\ code = 0 THEN 0 ELSE final_code

\* lib.rs:812-819 and main.rs:92: wait_for_child blocks until the child has
\* exited; run() returns Exited of the two codes, and run_start exits with it.
HostWaitExit ==
    /\ procAlive /\ hpc = "wait"
    /\ ~childAlive
    /\ WaitReturns(waits)
    /\ ProcessExit("exited", RunExited(WaitForChild(waits), exit_code))
    /\ UNCHANGED <<cfgDetached, lstep, batch, childAlive, masterOut, produced,
                   plan, masterIn, inputQ, enqueued, parser, sbWriter, slot,
                   session_ended, registry, sockFile, winsize, nreq, peerOpen,
                   inb, bq, och, last, sub, fin, dropped, cap, lag, outs,
                   subAt, skipped, regVars, termVars, waits, inputVars,
                   screenVars>>

\* run_pty_loop_detached, lib.rs:841, 856-859, 869-870: the master read ends,
\* the loop breaks and the session-ended flag is stored.
TailMasterEOF ==
    /\ procAlive /\ loop = "tail" /\ lstep = "select"
    /\ MasterEOF
    /\ session_ended' = TRUE
    /\ lstep' = "rm_socket"
    /\ UNCHANGED <<cfgDetached, hpc, loop, batch, procAlive, childAlive,
                   masterOpen, masterOut, produced, plan, masterIn, inputQ,
                   enqueued, parser, sbWriter, slot, registry, sockFile, spc,
                   winsize, nreq, hs, rs, peerOpen, inb, bq, och, last, sub,
                   fin, dropped, cap, lag, outs, subAt, skipped, regVars,
                   termVars, exitVars, inputVars, screenVars>>

\* lib.rs:872-873
TailRemoveSocket ==
    /\ procAlive /\ loop = "tail" /\ lstep = "rm_socket"
    /\ sockFile' = FALSE
    /\ lstep' = "rm_entry"
    /\ UNCHANGED <<cfgDetached, hpc, loop, batch, procAlive, childAlive,
                   masterOpen, masterOut, produced, plan, masterIn, inputQ,
                   enqueued, parser, sbWriter, slot, session_ended, registry,
                   spc, winsize, nreq, hs, rs, peerOpen, inb, bq, och, last,
                   sub, fin, dropped, cap, lag, outs, subAt, skipped, regVars,
                   termVars, exitVars, inputVars, screenVars>>

\* lib.rs:874-876
TailRemoveEntry ==
    /\ procAlive /\ loop = "tail" /\ lstep = "rm_entry"
    /\ registry' = RemoveSession(registry, SessionId)
    /\ lstep' = "wait"
    /\ UNCHANGED <<cfgDetached, hpc, loop, batch, procAlive, childAlive,
                   masterOpen, masterOut, produced, plan, masterIn, inputQ,
                   enqueued, parser, sbWriter, slot, session_ended, sockFile,
                   spc, winsize, nreq, hs, rs, peerOpen, inb, bq, och, last,
                   sub, fin, dropped, cap, lag, outs, subAt, skipped, regVars,
                   termVars, exitVars, inputVars, screenVars>>

\* lib.rs:878-880: wait_for_child, then the task ends and drops the master
\* and the input receiver. The process goes on (run_start sleeps).
TailWaitDone ==
    /\ procAlive /\ loop = "tail" /\ lstep = "wait"
    /\ ~childAlive
    /\ WaitReturns(waits)
    /\ loop' = "none"
    /\ lstep' = "done"
    /\ masterOpen' = FALSE
    /\ UNCHANGED <<cfgDetached, hpc, batch, procAlive, childAlive, masterOut,
                   produced, plan, masterIn, inputQ, enqueued, parser,
                   sbWriter, slot, session_ended, registry, sockFile, spc,
                   winsize, nreq, hs, rs, peerOpen, inb, bq, och, last, sub,
                   fin, dropped, cap, lag, outs, subAt, skipped, regVars,
                   termVars, exitVars, inputVars, screenVars>>

\* --------------------------------------------------------------- the peers

\* Client::connect: the socket file must exist and the listener must be
\* there to take the connection. Connections are opened in the order 1, 2, ...
PeerConnect(c) ==
    /\ hs[c] = "none" /\ ~peerOpen[c]
    /\ \A d \in Conns : d < c => hs[d] # "none"
    /\ sockFile /\ spc = "accept"
    /\ hs' = [hs EXCEPT ![c] = "backlog"]
    /\ peerOpen' = [peerOpen EXCEPT ![c] = TRUE]
    /\ UNCHANGED <<cfgDetached, hpc, loop, lstep, batch, procAlive, childAlive,
                   masterOpen, masterOut, produced, plan, masterIn, inputQ,
                   enqueued, parser, sbWriter, slot, session_ended, registry,
                   sockFile, spc, winsize, nreq, rs, inb, bq, och, last, sub,
                   fin, dropped, cap, lag, outs, subAt, skipped, regVars,
                   termVars, exitVars, inputVars, screenVars>>

\* The peer writes one message, once its connection has been accepted. Inject
\* and Input carry a buffer, named by the number of the request; the other
\* requests carry nothing the model follows.
PeerSend(c, t) ==
    /\ peerOpen[c] /\ hs[c] \in {"select", "claimed", "fwd"}
    /\ nreq < MaxReqs
    /\ nreq' = nreq + 1
    /\ inb' = [inb EXCEPT ![c] =
                 Append(@, [type |-> t,
                            data |-> IF t \in {"inject", "input"}
                                     THEN nreq + 1 ELSE 0])]
    /\ UNCHANGED <<cfgDetached, hpc, loop, lstep, batch, procAlive, childAlive,
                   masterOpen, masterOut, produced, plan, masterIn, inputQ,
                   enqueued, parser, sbWriter, slot, session_ended, registry,
                   sockFile, spc, winsize, hs, rs, peerOpen, bq, och, last,
                   sub, fin, dropped, cap, lag, outs, subAt, skipped, regVars,
                   termVars, exitVars, inputVars, screenVars>>

\* The peer closes its end of the connection.
PeerClose(c) ==
    /\ peerOpen[c]
    /\ peerOpen' = [peerOpen EXCEPT ![c] = FALSE]
    /\ UNCHANGED <<cfgDetached, hpc, loop, lstep, batch, procAlive, childAlive,
                   masterOpen, masterOut, produced, plan, masterIn, inputQ,
                   enqueued, parser, sbWriter, slot, session_ended, registry,
                   sockFile, spc, winsize, nreq, hs, rs, inb, bq, och, last,
                   sub, fin, dropped, cap, lag, outs, subAt, skipped, regVars,
                   termVars, exitVars, inputVars, screenVars>>

\* ------------------------------------------------------------ socket server

\* run_socket_server, lib.rs:349-359: remove a stale file, bind, and enter
\* the accept loop, whose top checks the session-ended flag.
ServerBind ==
    /\ procAlive /\ spc = "bind"
    /\ sockFile' = TRUE
    /\ spc' = IF session_ended THEN "stopped" ELSE "accept"
    /\ UNCHANGED <<cfgDetached, hpc, loop, lstep, batch, procAlive, childAlive,
                   masterOpen, masterOut, produced, plan, masterIn, inputQ,
                   enqueued, parser, sbWriter, slot, session_ended, registry,
                   winsize, nreq, hs, rs, peerOpen, inb, bq, och, last, sub,
                   fin, dropped, cap, lag, outs, subAt, skipped, regVars,
                   termVars, exitVars, inputVars, screenVars>>

SessionEndedMsg == [type |-> "session_ended", v |-> 0]

\* handle_json_client, lib.rs:135-144, reached with `out` just written (or
\* nothing written, after a request that could not be parsed): the top of
\* the loop checks the flag, sends SessionEnded and breaks if it is set, and
\* otherwise waits in the select. A write to a peer that has closed fails,
\* which ends the handler (lib.rs:309-314, 327-332).
HandlerLoop(c, out) ==
    LET failed == out # <<>> /\ ~peerOpen[c]
    IN  /\ last' = [last EXCEPT ![c] =
                      IF failed \/ out = <<>> THEN @ ELSE out[1]]
        /\ sub' = [sub EXCEPT ![c] =
                     @ \/ (~failed /\ out # <<>> /\ out[1].type = "subscribed")]
        /\ subAt' = [subAt EXCEPT ![c] =
                       IF ~failed /\ out # <<>> /\ out[1].type = "subscribed"
                          /\ ~sub[c]
                       THEN Broadcasts ELSE @]
        /\ fin' = [fin EXCEPT ![c] = ~failed /\ session_ended /\ peerOpen[c]]
        /\ hs' = [hs EXCEPT ![c] =
                    IF failed \/ session_ended THEN "done" ELSE "select"]
        /\ bq' = [bq EXCEPT ![c] =
                    IF failed \/ session_ended THEN <<>> ELSE @]
        /\ lag' = [lag EXCEPT ![c] =
                    IF failed \/ session_ended THEN FALSE ELSE @]

\* run_socket_server, lib.rs:361-375 and 357-359: accept returns a
\* connection, a handler task is spawned for it with a fresh broadcast
\* receiver, and the loop's top checks the flag again. Leaving the loop drops
\* the listener, which resets the connections still waiting in its backlog.
ServerAccept(c) ==
    /\ procAlive /\ spc = "accept"
    /\ hs[c] = "backlog"
    /\ spc' = IF session_ended THEN "stopped" ELSE "accept"
    /\ fin' = [fin EXCEPT ![c] = session_ended /\ peerOpen[c]]
    /\ hs' = [d \in Conns |->
                IF d = c
                THEN IF session_ended THEN "done" ELSE "select"
                ELSE IF session_ended /\ hs[d] = "backlog"
                     THEN "reset" ELSE hs[d]]
    /\ UNCHANGED <<cfgDetached, hpc, loop, lstep, batch, procAlive, childAlive,
                   masterOpen, masterOut, produced, plan, masterIn, inputQ,
                   enqueued, parser, sbWriter, slot, session_ended, registry,
                   sockFile, winsize, nreq, rs, peerOpen, inb, bq, och, last,
                   sub, dropped, cap, lag, outs, subAt, skipped, regVars,
                   termVars, exitVars, inputVars, screenVars>>

\* serde_json::from_slice over everything one read returned: Ok only when the
\* bytes are exactly one well-formed request.
ParseRequest(msgs) == Len(msgs) = 1 /\ msgs[1].type \in RequestTypes

\* The input receiver lives in run() and then in the tail task; it is dropped
\* when the tail task ends.
InputRxAlive == lstep # "done"

\* UnboundedSender::send on the input channel.
InputSend(q, data) == Append(q, data)

ErrorMsg(m) == [type |-> "error", v |-> m]

\* ioctl(TIOCGWINSZ) on the master fd: the size, or the zeroed struct when
\* the fd is no longer open.
MasterWinsize == IF masterOpen THEN winsize ELSE <<0, 0>>

\* set_window_size_raw on the master fd.
SetWindowSize(ws) == IF masterOpen THEN ws ELSE winsize

\* The response of the dispatch at lib.rs:159-306 to every request but Attach.
Reply(req) ==
    CASE req.type = "get_scrollback" ->
            [type |-> "scrollback", v |-> GetLines(parser)]
      [] req.type = "get_cursor" ->
            [type |-> "cursor", v |-> CursorPosition(parser)]
      [] req.type \in {"inject", "input"} ->
            IF InputRxAlive THEN [type |-> "ok", v |-> 0]
            ELSE ErrorMsg("session ended")
      [] req.type = "get_size" -> [type |-> "size", v |-> MasterWinsize]
      [] req.type = "subscribe" -> [type |-> "subscribed", v |-> 0]
      [] req.type = "resize" -> [type |-> "ok", v |-> 0]

\* Reading the scrollback takes SCROLLBACK's read lock.
NeedsScrollback(req) == req.type \in {"get_scrollback", "get_cursor"}

\* An Attach that takes the slot without looking at its occupant.
AttachClaimUnchecked(c) == TRUE

\* lib.rs:196-203: under the slot's mutex, an Attach either finds an occupant
\* or becomes the occupant; TRUE when connection c may claim the slot.
AttachClaim(c) == slot = NoClient

\* handle_json_client, lib.rs:147-157: a read that returns data which is not
\* exactly one request is logged and skipped, with no response.
HandlerReadInvalid(c, k) ==
    /\ procAlive /\ hs[c] = "select"
    /\ k \in 1..Len(inb[c])
    /\ ~ParseRequest(SubSeq(inb[c], 1, k))
    /\ inb' = [inb EXCEPT ![c] = SubSeq(@, k + 1, Len(@))]
    /\ dropped' = [dropped EXCEPT ![c] =
          @ + Cardinality({i \in 1..k : inb[c][i].type \in RequestTypes})]
    /\ skipped' = [skipped EXCEPT ![c] =
          @ + Cardinality({i \in 1..k : inb[c][i].type \notin RequestTypes})]
    /\ HandlerLoop(c, <<>>)
    /\ UNCHANGED <<cfgDetached, hpc, loop, lstep, batch, procAlive, childAlive,
                   masterOpen, masterOut, produced, plan, masterIn, inputQ,
                   enqueued, parser, sbWriter, slot, session_ended, registry,
                   sockFile, spc, winsize, nreq, rs, peerOpen, och, cap, outs,
                   regVars, termVars, exitVars, inputVars, screenVars>>

\* handle_json_client, lib.rs:147-193 and 290-314: one request is read,
\* dispatched and answered.
HandlerRequest(c) ==
    /\ procAlive /\ hs[c] = "select"
    /\ inb[c] # <<>>
    /\ ParseRequest(<<Head(inb[c])>>)
    /\ Head(inb[c]).type # "attach"
    /\ NeedsScrollback(Head(inb[c])) => ScrollbackReadable
    /\ LET req == Head(inb[c])
           send == req.type \in {"inject", "input"} /\ InputRxAlive
       IN  /\ inb' = [inb EXCEPT ![c] = Tail(@)]
           /\ inputQ' = IF send THEN InputSend(inputQ, req.data) ELSE inputQ
           /\ enqueued' = IF send THEN Append(enqueued, req.data) ELSE enqueued
           /\ winsize' = IF req.type = "resize"
                         THEN SetWindowSize(ResizeWinsize) ELSE winsize
           /\ HandlerLoop(c, <<Reply(req)>>)
    /\ UNCHANGED <<cfgDetached, hpc, loop, lstep, batch, procAlive, childAlive,
                   masterOpen, masterOut, produced, plan, masterIn, parser,
                   sbWriter, slot, session_ended, registry, sockFile, spc,
                   nreq, rs, peerOpen, och, dropped, cap, outs, skipped,
                   regVars, termVars, exitVars, inputVars, screenVars>>

\* handle_json_client, lib.rs:194-203: an Attach request is read; with the
\* slot occupied it is answered with Error, otherwise the handler puts a new
\* output sender in the slot and goes on to resize and respond.
HandlerAttach(c) ==
    /\ procAlive /\ hs[c] = "select"
    /\ inb[c] # <<>>
    /\ Head(inb[c]).type = "attach"
    /\ inb' = [inb EXCEPT ![c] = Tail(@)]
    /\ IF AttachClaim(c)
       THEN /\ slot' = c
            /\ hs' = [hs EXCEPT ![c] = "claimed"]
            /\ bq' = [bq EXCEPT ![c] = <<>>]
            /\ lag' = [lag EXCEPT ![c] = FALSE]
            /\ och' = [och EXCEPT ![c] = <<>>]
            /\ UNCHANGED <<last, sub, fin, subAt>>
       ELSE /\ HandlerLoop(c, <<ErrorMsg("session already has attached client")>>)
            /\ UNCHANGED <<slot, och>>
    /\ UNCHANGED <<cfgDetached, hpc, loop, lstep, batch, procAlive, childAlive,
                   masterOpen, masterOut, produced, plan, masterIn, inputQ,
                   enqueued, parser, sbWriter, session_ended, registry,
                   sockFile, spc, winsize, nreq, rs, peerOpen, dropped, cap,
                   outs, skipped, regVars, termVars, exitVars, inputVars,
                   screenVars>>

\* handle_json_client, lib.rs:205-267: the PTY is resized, the scrollback is
\* read and sent in Attached; if the write fails the slot is cleared and the
\* handler ends, otherwise the reader task is spawned (its loop checks the
\* flag first, lib.rs:238-240, and clears the slot when it breaks) and the
\* handler becomes the output forwarder.
HandlerAttachRespond(c) ==
    /\ procAlive /\ hs[c] = "claimed"
    /\ ScrollbackReadable
    /\ winsize' = SetWindowSize(AttachWinsize)
    /\ IF peerOpen[c]
       THEN /\ last' = [last EXCEPT ![c] =
                          [type |-> "attached", v |-> GetLines(parser)]]
            /\ hs' = [hs EXCEPT ![c] = "fwd"]
            /\ rs' = [rs EXCEPT ![c] = IF session_ended THEN "done" ELSE "run"]
            /\ slot' = IF session_ended THEN NoClient ELSE slot
       ELSE /\ slot' = NoClient
            /\ hs' = [hs EXCEPT ![c] = "done"]
            /\ UNCHANGED <<last, rs>>
    /\ UNCHANGED <<cfgDetached, hpc, loop, lstep, batch, procAlive, childAlive,
                   masterOpen, masterOut, produced, plan, masterIn, inputQ,
                   enqueued, parser, sbWriter, session_ended, registry,
                   sockFile, spc, nreq, peerOpen, inb, bq, och, sub, fin,
                   dropped, cap, lag, outs, subAt, skipped, regVars, termVars,
                   exitVars, inputVars, screenVars>>

\* handle_json_client, lib.rs:146-149: the peer has closed and everything it
\* sent has been read; read_buf returns Ok(0) and the handler ends.
HandlerEOF(c) ==
    /\ procAlive /\ hs[c] = "select"
    /\ ~peerOpen[c] /\ inb[c] = <<>>
    /\ hs' = [hs EXCEPT ![c] = "done"]
    /\ bq' = [bq EXCEPT ![c] = <<>>]
    /\ lag' = [lag EXCEPT ![c] = FALSE]
    /\ UNCHANGED <<cfgDetached, hpc, loop, lstep, batch, procAlive, childAlive,
                   masterOpen, masterOut, produced, plan, masterIn, inputQ,
                   enqueued, parser, sbWriter, slot, session_ended, registry,
                   sockFile, spc, winsize, nreq, rs, peerOpen, inb, och, last,
                   sub, fin, dropped, cap, outs, subAt, skipped, regVars,
                   termVars, exitVars, inputVars, screenVars>>

\* handle_json_client, lib.rs:322-337: the select's other branch, taken on
\* every connection whatever it has requested: a broadcast batch is received
\* and written as Output. An overrun receiver returns Lagged first.
HandlerOutput(c) ==
    /\ procAlive /\ hs[c] = "select"
    /\ bq[c] # <<>> /\ ~lag[c]
    /\ LET failed == ~peerOpen[c]
       IN  /\ last' = [last EXCEPT ![c] =
                 IF failed THEN @ ELSE [type |-> "output", v |-> Head(bq[c])]]
           /\ outs' = [outs EXCEPT ![c] =
                 IF failed THEN @ ELSE Append(@, Head(bq[c]))]
           /\ fin' = [fin EXCEPT ![c] = ~failed /\ session_ended]
           /\ hs' = [hs EXCEPT ![c] =
                 IF failed \/ session_ended THEN "done" ELSE "select"]
           /\ bq' = [bq EXCEPT ![c] =
                 IF failed \/ session_ended THEN <<>> ELSE Tail(@)]
    /\ UNCHANGED <<cfgDetached, hpc, loop, lstep, batch, procAlive, childAlive,
                   masterOpen, masterOut, produced, plan, masterIn, inputQ,
                   enqueued, parser, sbWriter, slot, session_ended, registry,
                   sockFile, spc, winsize, nreq, rs, peerOpen, inb, och, sub,
                   dropped, cap, lag, subAt, skipped, regVars, termVars,
                   exitVars, inputVars, screenVars>>

\* handle_json_client, lib.rs:334 and 135-144: recv on an overrun receiver
\* returns Lagged, which moves the receiver to the oldest batch the channel
\* still holds; the handler continues at the top of its loop.
HandlerLagged(c) ==
    /\ procAlive /\ hs[c] = "select"
    /\ lag[c]
    /\ lag' = [lag EXCEPT ![c] = FALSE]
    /\ fin' = [fin EXCEPT ![c] = session_ended /\ peerOpen[c]]
    /\ hs' = [hs EXCEPT ![c] = IF session_ended THEN "done" ELSE "select"]
    /\ bq' = [bq EXCEPT ![c] = IF session_ended THEN <<>> ELSE @]
    /\ UNCHANGED <<cfgDetached, hpc, loop, lstep, batch, procAlive, childAlive,
                   masterOpen, masterOut, produced, plan, masterIn, inputQ,
                   enqueued, parser, sbWriter, slot, session_ended, registry,
                   sockFile, spc, winsize, nreq, rs, peerOpen, inb, och, last,
                   sub, dropped, cap, outs, subAt, skipped, regVars, termVars,
                   exitVars, inputVars, screenVars>>

\* The attach reader task, lib.rs:241-260: a read returns data; an Input is
\* sent on the input channel, a Resize sets the window size, anything else
\* (including data that is not exactly one request) is ignored. The task
\* breaks when the send fails or when the flag is set at the top of its loop,
\* and then clears the slot (lib.rs:264-266).
ReaderRead(c, k) ==
    /\ procAlive /\ rs[c] = "run"
    /\ k \in 1..Len(inb[c])
    /\ LET msgs == SubSeq(inb[c], 1, k)
           ok == ParseRequest(msgs)
           req == msgs[1]
           isInput == ok /\ req.type = "input"
           stop == (isInput /\ ~InputRxAlive) \/ session_ended
       IN  /\ inb' = [inb EXCEPT ![c] = SubSeq(@, k + 1, Len(@))]
           /\ inputQ' = IF isInput /\ InputRxAlive
                        THEN InputSend(inputQ, req.data) ELSE inputQ
           /\ enqueued' = IF isInput /\ InputRxAlive
                          THEN Append(enqueued, req.data) ELSE enqueued
           /\ winsize' = IF ok /\ req.type = "resize"
                         THEN SetWindowSize(ResizeWinsize) ELSE winsize
           /\ rs' = [rs EXCEPT ![c] = IF stop THEN "done" ELSE "run"]
           /\ slot' = IF stop THEN NoClient ELSE slot
    /\ UNCHANGED <<cfgDetached, hpc, loop, lstep, batch, procAlive, childAlive,
                   masterOpen, masterOut, produced, plan, masterIn, parser,
                   sbWriter, session_ended, registry, sockFile, spc, nreq, hs,
                   peerOpen, bq, och, last, sub, fin, dropped, cap, lag, outs,
                   subAt, skipped, regVars, termVars, exitVars, inputVars,
                   screenVars>>

\* The attach reader task, lib.rs:242 and 261-266: the peer has closed; read
\* returns Ok(0) or an error, the task breaks and clears the slot.
ReaderEOF(c) ==
    /\ procAlive /\ rs[c] = "run"
    /\ ~peerOpen[c] /\ inb[c] = <<>>
    /\ rs' = [rs EXCEPT ![c] = "done"]
    /\ slot' = NoClient
    /\ UNCHANGED <<cfgDetached, hpc, loop, lstep, batch, procAlive, childAlive,
                   masterOpen, masterOut, produced, plan, masterIn, inputQ,
                   enqueued, parser, sbWriter, session_ended, registry,
                   sockFile, spc, winsize, nreq, hs, peerOpen, inb, bq, och,
                   last, sub, fin, dropped, cap, lag, outs, subAt, skipped,
                   regVars, termVars, exitVars, inputVars, screenVars>>

\* The output forwarder, lib.rs:270-287: a batch posted to the connection's
\* output channel is written as Output; a failed write ends the handler.
ForwardOutput(c) ==
    /\ procAlive /\ hs[c] = "fwd"
    /\ och[c] # <<>>
    /\ och' = [och EXCEPT ![c] = IF peerOpen[c] THEN Tail(@) ELSE <<>>]
    /\ last' = [last EXCEPT ![c] =
                  IF peerOpen[c]
                  THEN [type |-> "output", v |-> Head(och[c])]
                  ELSE @]
    /\ hs' = [hs EXCEPT ![c] = IF peerOpen[c] THEN "fwd" ELSE "done"]
    /\ UNCHANGED <<cfgDetached, hpc, loop, lstep, batch, procAlive, childAlive,
                   masterOpen, masterOut, produced, plan, masterIn, inputQ,
                   enqueued, parser, sbWriter, slot, session_ended, registry,
                   sockFile, spc, winsize, nreq, rs, peerOpen, inb, bq, sub,
                   fin, dropped, cap, lag, outs, subAt, skipped, regVars,
                   termVars, exitVars, inputVars, screenVars>>

\* The output forwarder, lib.rs:282: the channel is empty and its sender has
\* been dropped with the slot's record; recv returns None and the handler
\* returns.
ForwardClosed(c) ==
    /\ procAlive /\ hs[c] = "fwd"
    /\ och[c] = <<>> /\ slot # c
    /\ hs' = [hs EXCEPT ![c] = "done"]
    /\ UNCHANGED <<cfgDetached, hpc, loop, lstep, batch, procAlive, childAlive,
                   masterOpen, masterOut, produced, plan, masterIn, inputQ,
                   enqueued, parser, sbWriter, slot, session_ended, registry,
                   sockFile, spc, winsize, nreq, rs, peerOpen, inb, bq, och,
                   last, sub, fin, dropped, cap, lag, outs, subAt, skipped,
                   regVars, termVars, exitVars, inputVars, screenVars>>

HostNext ==
    \/ HostRegister \/ HostStart \/ ChildWrite \/ ChildExit
    \/ LoopReadBatch \/ LoopPushed \/ TailSlotSend \/ LoopInput
    \/ AttachedDetachKey \/ AttachedMasterEOF
    \/ AttachedStdinEOF \/ HostDetach \/ RunStartDetachedExit
    \/ HostRemoveSocket \/ HostRemoveEntry \/ HostWaitExit
    \/ TailMasterEOF \/ TailRemoveSocket \/ TailRemoveEntry \/ TailWaitDone

\* ----------------------------------------------- the registry file, shared
\* modify_sessions_file (lib.rs:23-61) step by step, with several hosts
\* working on one sessions.json. A host registers when it starts, may mark
\* its entry detached, and removes the entry when it stops.

\* lib.rs:44-48: empty contents, or contents that do not parse, give an empty
\* list.
ParseSessions(file) == IF file.json THEN file.list ELSE <<>>

\* The closure f the host passes, applied to the list read.
ApplyOp(op, sessions, h) ==
    CASE op = "insert" -> InsertSession(sessions, h, TRUE)
      [] op = "mark" -> MarkDetached(sessions, h)
      [] op = "remove" -> RemoveSession(sessions, h)

\* The closure a host applies next, given how far it has come.
NextOps(h) ==
    CASE regLive[h] = "new" -> {"insert"}
      [] regLive[h] = "live" -> {"mark", "remove"}
      [] regLive[h] = "detached" -> {"remove"}
      [] OTHER -> {}

\* What the host has become once the closure's update is in the file.
AfterOp(op) ==
    CASE op = "insert" -> "live"
      [] op = "mark" -> "detached"
      [] op = "remove" -> "gone"

\* A lock that is granted whoever holds it.
RegLockAlways(h) == TRUE

\* File::lock (lib.rs:37): the exclusive lock is granted only while no other
\* open file description holds it.
RegLockFree(h) == regLock = 0

\* lib.rs:29-38: open the file (creating it empty if missing) and take the
\* exclusive lock.
RegLock(h, op) ==
    /\ regHosts[h] = "idle"
    /\ op \in NextOps(h)
    /\ RegLockFree(h)
    /\ regLock' = h
    /\ regOp' = [regOp EXCEPT ![h] = op]
    /\ regHosts' = [regHosts EXCEPT ![h] = "locked"]
    /\ UNCHANGED <<protoVars, regFile, regLocal, regLive, termVars, exitVars,
                   inputVars, screenVars>>

\* lib.rs:40-50: read the whole file, parse it, apply the closure in memory.
RegRead(h) ==
    /\ regHosts[h] = "locked"
    /\ regLocal' = [regLocal EXCEPT ![h] =
                      ApplyOp(regOp[h], ParseSessions(regFile), h)]
    /\ regHosts' = [regHosts EXCEPT ![h] = "modified"]
    /\ UNCHANGED <<protoVars, regOp, regFile, regLock, regLive, termVars,
                   exitVars, inputVars, screenVars>>

\* lib.rs:52-55: set_len(0) and seek to the start.
RegTruncate(h) ==
    /\ regHosts[h] = "modified"
    /\ regFile' = EmptyFile
    /\ regHosts' = [regHosts EXCEPT ![h] = "truncated"]
    /\ UNCHANGED <<protoVars, regOp, regLock, regLocal, regLive, termVars,
                   exitVars, inputVars, screenVars>>

\* lib.rs:56-57: write the pretty-printed list.
RegWrite(h) ==
    /\ regHosts[h] = "truncated"
    /\ regFile' = JsonFile(regLocal[h])
    /\ regHosts' = [regHosts EXCEPT ![h] = "written"]
    /\ UNCHANGED <<protoVars, regOp, regLock, regLocal, regLive, termVars,
                   exitVars, inputVars, screenVars>>

\* lib.rs:59-61: the file is dropped, which releases the lock, and the
\* operation has completed.
RegClose(h) ==
    /\ regHosts[h] = "written"
    /\ regLock' = IF regLock = h THEN 0 ELSE regLock
    /\ regLive' = [regLive EXCEPT ![h] = AfterOp(regOp[h])]
    /\ regOp' = [regOp EXCEPT ![h] = "none"]
    /\ regLocal' = [regLocal EXCEPT ![h] = <<>>]
    /\ regHosts' = [regHosts EXCEPT ![h] = "idle"]
    /\ UNCHANGED <<protoVars, regFile, termVars, exitVars, inputVars,
                   screenVars>>

\* The registry file is on disk: some host has opened it, which creates it
\* (lib.rs:29-35, create(true)), and nothing ever deletes it.
RegFileExists ==
    \E h \in Hosts : regHosts[h] # "idle" \/ regLive[h] # "new"

\* list_sessions, tap-client lib.rs:24-36, on what one read_to_string returns:
\* a missing file reads as "[]"; the contents must parse as a JSON list (empty
\* contents do not, and the error is returned); the entries whose socket file
\* exists are kept. sockets is the set of ids that have a socket file.
ListSessions(file, exists, sockets) ==
    CASE ~exists -> [ok |-> TRUE, sessions |-> <<>>]
      [] exists /\ ~file.json -> [ok |-> FALSE, sessions |-> <<>>]
      [] OTHER -> [ok |-> TRUE,
                   sessions |-> SelectSeq(file.list,
                                          LAMBDA s : s.id \in sockets)]

RegInit == InitWith(0) /\ cfgDetached

RegNext ==
    \E h \in Hosts :
        \/ \E op \in {"insert", "mark", "remove"} : RegLock(h, op)
        \/ RegRead(h)
        \/ RegTruncate(h)
        \/ RegWrite(h)
        \/ RegClose(h)

\* The registry specification: NumHosts hosts starting, detaching and
\* stopping concurrently on one registry file.
RegSpec == RegInit /\ [][RegNext]_vars

\* What the peers send in the session specification: the requests that take
\* and feed the attach slot.
SessionTypes == {"attach", "input"}

\* What the peer sends in the dispatch specification: every kind of message.
DispatchTypes == MessageTypes

\* The one connection of the dispatch specification: the first one opened.
DispatchConn == CHOOSE c \in Conns : \A d \in Conns : c <= d

HandlerNext(c) ==
    \/ ServerAccept(c)
    \/ \E k \in 1..MaxReqs : HandlerReadInvalid(c, k)
    \/ HandlerRequest(c)
    \/ HandlerEOF(c)
    \/ HandlerOutput(c)

AttachNext(c) ==
    \/ HandlerAttach(c)
    \/ HandlerAttachRespond(c)
    \/ \E k \in 1..MaxReqs : ReaderRead(c, k)
    \/ ReaderEOF(c)
    \/ ForwardOutput(c)
    \/ ForwardClosed(c)

\* The session specification: one host from start to exit, the socket server,
\* and peers that attach, send input and disconnect.
Next ==
    \/ HostNext
    \/ ServerBind
    \/ \E c \in Conns :
        \/ PeerConnect(c)
        \/ \E t \in SessionTypes : PeerSend(c, t)
        \/ PeerClose(c)
        \/ HandlerNext(c)
        \/ AttachNext(c)

Init == InitWith(SessionBatches)

Spec == Init /\ [][Next]_vars

\* The dispatch specification: the same host and server with one peer that
\* sends every kind of message.
DispatchNext ==
    \/ HostNext
    \/ ServerBind
    \/ PeerConnect(DispatchConn)
    \/ \E t \in DispatchTypes : PeerSend(DispatchConn, t)
    \/ PeerClose(DispatchConn)
    \/ HandlerNext(DispatchConn)
    \/ AttachNext(DispatchConn)

DispatchInit == InitWith(DispatchBatches)

DispatchSpec == DispatchInit /\ [][DispatchNext]_vars

\* Client::send_input, tap-client lib.rs:157-162: the attach client writes
\* each stdin read as one Input request, waiting for nothing in between.
SendInput(c) ==
    /\ peerOpen[c] /\ hs[c] = "fwd"
    /\ nreq < AttachedReqs
    /\ nreq' = nreq + 1
    /\ inb' = [inb EXCEPT ![c] = Append(@, [type |-> "input", data |-> nreq + 1])]
    /\ UNCHANGED <<cfgDetached, hpc, loop, lstep, batch, procAlive, childAlive,
                   masterOpen, masterOut, produced, plan, masterIn, inputQ,
                   enqueued, parser, sbWriter, slot, session_ended, registry,
                   sockFile, spc, winsize, hs, rs, peerOpen, bq, och, last,
                   sub, fin, dropped, cap, lag, outs, subAt, skipped, regVars,
                   termVars, exitVars, inputVars, screenVars>>

\* The framing specification: the host and one peer that sends every kind of
\* message and, once attached, its input.
FramingNext ==
    \/ HostNext
    \/ ServerBind
    \/ PeerConnect(DispatchConn)
    \/ \E t \in DispatchTypes : PeerSend(DispatchConn, t)
    \/ SendInput(DispatchConn)
    \/ PeerClose(DispatchConn)
    \/ HandlerNext(DispatchConn)
    \/ AttachNext(DispatchConn)

FramingSpec == Init /\ [][FramingNext]_vars

\* What the peer sends in the lag specification.
LagTypes == {"subscribe", "inject"}

\* The lag specification: the host and one peer again, with the broadcast
\* channel scaled down to LagCapacity messages so that the child's LagBatches
\* batches overrun a receiver that is not polled in time.
LagNext ==
    \/ HostNext
    \/ ServerBind
    \/ PeerConnect(DispatchConn)
    \/ \E t \in LagTypes : PeerSend(DispatchConn, t)
    \/ PeerClose(DispatchConn)
    \/ HandlerNext(DispatchConn)
    \/ HandlerLagged(DispatchConn)

LagInit == InitCap(LagBatches, LagCapacity)

LagSpec == LagInit /\ [][LagNext]_vars

\* ------------------------------------------------------ the local terminal
\* What the attached host (run(), lib.rs:599-763) and the attach client
\* (run_attach, main.rs:129-233) do to the terminal they run in.

\* setup_terminal: tcgetattr, cfmakeraw, tcsetattr. Both calls fail when
\* stdin is not a terminal; the caller keeps Some(orig) only on success.
SetupTerminal(tty, next) ==
    /\ orig_termios' = tty
    /\ termMode' = IF tty THEN "raw" ELSE termMode
    /\ termPc' = next

\* restore_terminal under `if let Some(ref termios) = orig_termios`.
RestoreTerminal(next) ==
    /\ termMode' = IF orig_termios THEN "cooked" ELSE termMode
    /\ termPc' = next

\* The branches of the host's attached loop that break, with the value each
\* breaks with.
HostBreaks ==
    {<<"master_eof", 0>>, <<"stdout_write_error", 1>>,
     <<"master_read_error", 0>>, <<"stdin_eof", 0>>,
     <<"master_write_error", 1>>, <<"detach", 0>>, <<"stdin_read_error", 0>>}

\* The branches of the attach client's loop that break.
ClientBreaks ==
    {<<"stdin_eof", 0>>, <<"send_input_error", 1>>, <<"detach", 0>>,
     <<"stdin_read_error", 0>>, <<"stdout_write_error", 1>>,
     <<"session_ended", 0>>, <<"read_output_error", 0>>}

\* What open_scrollback_in_editor can come to: an error before the terminal
\* is touched, an error after it was put back in its original mode, or the
\* editor having run and raw mode set again.
EditorOutcomes == {"tempfile_error", "spawn_error", "ran", "raw_error"}

HostSetupTerminal(tty) ==
    /\ termPc = "start"
    /\ SetupTerminal(tty, "host_push")
    /\ UNCHANGED <<protoVars, regVars, keyboard_enhanced, kbFlags, termBreak,
                   exit_code, exitVars, inputVars, screenVars>>

\* PushKeyboardEnhancementFlags, attempted only with a saved termios.
HostPushKeyboard(ok) ==
    /\ termPc = "host_push"
    /\ keyboard_enhanced' = (orig_termios /\ ok)
    /\ kbFlags' = IF orig_termios /\ ok THEN kbFlags + 1 ELSE kbFlags
    /\ termPc' = "host_loop"
    /\ UNCHANGED <<protoVars, regVars, termMode, orig_termios, termBreak,
                   exit_code, exitVars, inputVars, screenVars>>

\* The OpenEditor keybind: the loop goes on whatever the editor call returns.
HostOpenEditor(outcome) ==
    /\ termPc = "host_loop"
    /\ termMode' =
        CASE outcome = "tempfile_error" -> termMode
          [] outcome \in {"spawn_error", "raw_error"} ->
                IF orig_termios THEN "cooked" ELSE termMode
          [] outcome = "ran" -> IF orig_termios THEN "raw" ELSE termMode
    /\ UNCHANGED <<protoVars, regVars, termPc, orig_termios, keyboard_enhanced,
                   kbFlags, termBreak, exit_code, exitVars, inputVars,
                   screenVars>>

HostLoopBreak(b) ==
    /\ termPc = "host_loop"
    /\ termBreak' = b[1]
    /\ exit_code' = b[2]
    /\ termPc' = "host_pop"
    /\ UNCHANGED <<protoVars, regVars, termMode, orig_termios,
                   keyboard_enhanced, kbFlags, exitVars, inputVars, screenVars>>

\* PopKeyboardEnhancementFlags under `if keyboard_enhanced`.
HostPopKeyboard ==
    /\ termPc = "host_pop"
    /\ kbFlags' = IF keyboard_enhanced THEN kbFlags - 1 ELSE kbFlags
    /\ termPc' = "host_restore"
    /\ UNCHANGED <<protoVars, regVars, termMode, orig_termios,
                   keyboard_enhanced, termBreak, exit_code, exitVars,
                   inputVars, screenVars>>

\* After this the host only does registry and child bookkeeping and returns.
HostRestoreTerminal ==
    /\ termPc = "host_restore"
    /\ RestoreTerminal("host_left")
    /\ UNCHANGED <<protoVars, regVars, orig_termios, keyboard_enhanced,
                   kbFlags, termBreak, exit_code, exitVars, inputVars,
                   screenVars>>

\* run_attach after its Attach was accepted.
ClientSetupTerminal(tty) ==
    /\ termPc = "start"
    /\ SetupTerminal(tty, "client_config")
    /\ UNCHANGED <<protoVars, regVars, keyboard_enhanced, kbFlags, termBreak,
                   exit_code, exitVars, inputVars, screenVars>>

\* tap_config::load()?: an unreadable or malformed config file returns the
\* error from run_attach, and main returns it in turn.
ClientLoadConfig(ok) ==
    /\ termPc = "client_config"
    /\ termPc' = IF ok THEN "client_processor" ELSE "client_failed"
    /\ termBreak' = IF ok THEN termBreak ELSE "config_error"
    /\ UNCHANGED <<protoVars, regVars, termMode, orig_termios,
                   keyboard_enhanced, kbFlags, exit_code, exitVars, inputVars,
                   screenVars>>

\* InputProcessor::new(&tap_config)?: a keybind that does not parse.
ClientNewProcessor(ok) ==
    /\ termPc = "client_processor"
    /\ termPc' = IF ok THEN "client_loop" ELSE "client_failed"
    /\ termBreak' = IF ok THEN termBreak ELSE "keybind_error"
    /\ UNCHANGED <<protoVars, regVars, termMode, orig_termios,
                   keyboard_enhanced, kbFlags, exit_code, exitVars, inputVars,
                   screenVars>>

ClientLoopBreak(b) ==
    /\ termPc = "client_loop"
    /\ termBreak' = b[1]
    /\ exit_code' = b[2]
    /\ termPc' = "client_restore"
    /\ UNCHANGED <<protoVars, regVars, termMode, orig_termios,
                   keyboard_enhanced, kbFlags, exitVars, inputVars, screenVars>>

\* restore_terminal, then process::exit(exit_code).
ClientRestoreTerminal ==
    /\ termPc = "client_restore"
    /\ RestoreTerminal("client_left")
    /\ UNCHANGED <<protoVars, regVars, orig_termios, keyboard_enhanced,
                   kbFlags, termBreak, exit_code, exitVars, inputVars,
                   screenVars>>

TermNext ==
    \/ \E tty \in BOOLEAN : HostSetupTerminal(tty)
    \/ \E ok \in BOOLEAN : HostPushKeyboard(ok)
    \/ \E o \in EditorOutcomes : HostOpenEditor(o)
    \/ \E b \in HostBreaks : HostLoopBreak(b)
    \/ HostPopKeyboard
    \/ HostRestoreTerminal
    \/ \E tty \in BOOLEAN : ClientSetupTerminal(tty)
    \/ \E ok \in BOOLEAN : ClientLoadConfig(ok)
    \/ \E ok \in BOOLEAN : ClientNewProcessor(ok)
    \/ \E b \in ClientBreaks : ClientLoopBreak(b)
    \/ ClientRestoreTerminal

TermInit == InitWith(0) /\ ~cfgDetached

\* The terminal specification: one process, the attached host or the attach
\* client, from taking the terminal to leaving it.
TermSpec == TermInit /\ [][TermNext]_vars

\* ------------------------------------------------------- the host's exit
\* Waits a child can put its host through: up to MaxWaitRetries results that
\* wait_for_child retries, and then the report of the child's end.
WaitEnds ==
    {WaitResult("Exited", 0), WaitResult("Exited", 3),
     WaitResult("Signaled", 9), WaitResult("ECHILD", 0)}

RECURSIVE WaitRetries(_)
WaitRetries(n) ==
    IF n = 0 THEN {<<>>}
    ELSE WaitRetries(n - 1) \cup
         {Append(p, r) : p \in WaitRetries(n - 1), r \in {WaitResult("EINTR", 0), WaitResult("Stopped", 0)}}

WaitScripts == {Append(p, e) : p \in WaitRetries(MaxWaitRetries), e \in WaitEnds}

\* The host alone, with nobody connecting: from start to the child's exit
\* and whatever the host does after it.
ExitNext ==
    \/ HostRegister \/ HostStart \/ ChildWrite \/ ChildExit
    \/ LoopReadBatch \/ LoopPushed \/ TailSlotSend
    \/ AttachedDetachKey \/ AttachedMasterEOF
    \/ AttachedStdinEOF \/ HostDetach \/ RunStartDetachedExit
    \/ AttachedMasterWriteError
    \/ \E step \in {"openpty", "sigwinch", "fork"} : HostStartFails(step)
    \/ HostRemoveSocket \/ HostRemoveEntry \/ HostWaitExit
    \/ TailMasterEOF \/ TailRemoveSocket \/ TailRemoveEntry \/ TailWaitDone

ExitInit == InitFor(SessionBatches, BROADCAST_CHANNEL_SIZE, WaitScripts)

ExitSpec == ExitInit /\ [][ExitNext]_vars

\* ---------------------------------------------------- keys and the classifier
\* Bytes are numbers below 256; a buffer is a sequence of bytes.

\* slice.iter().position(|&b| b == x), counted from 1; 0 for None.
Position(data, x) ==
    IF \E i \in 1..Len(data) : data[i] = x
    THEN CHOOSE i \in 1..Len(data) :
            data[i] = x /\ \A j \in 1..(i - 1) : data[j] # x
    ELSE 0

\* str::split(sep).collect(): the fields between separators, never empty.
RECURSIVE Split(_, _)
Split(str, sep) ==
    LET i == Position(str, sep)
    IN  IF i = 0 THEN <<str>>
        ELSE <<SubSeq(str, 1, i - 1)>> \o Split(SubSeq(str, i + 1, Len(str)), sep)

\* str::parse::<u32>(): an optional '+', then one or more decimal digits, and
\* a value that fits 32 bits; -1 for Err. Numerals of up to nine digits always
\* fit, and the buffers followed here hold no longer ones.
RECURSIVE DigitsValue(_)
DigitsValue(d) ==
    IF d = <<>> THEN 0
    ELSE 10 * DigitsValue(SubSeq(d, 1, Len(d) - 1)) + (d[Len(d)] - 48)

ParseU32(str) ==
    LET d == IF str # <<>> /\ str[1] = 43 THEN Tail(str) ELSE str
    IN  IF d # <<>> /\ (\A i \in 1..Len(d) : d[i] \in 48..57) /\ Len(d) <= 9
        THEN DigitsValue(d) ELSE -1

\* The parse that matches_kitty (tap-config lib.rs:152-167) and
\* translate_csi_u_to_traditional (kitty.rs:136-154) both begin with: ESC [,
\* the first 'u' at offset 3 or later, and "codepoint;modifiers" between
\* them, the modifiers being 1 when absent or unparseable.
CsiU(data) ==
    LET u == Position(data, 117)
        parts == Split(SubSeq(data, 3, u - 1), 59)
        ok == /\ Len(data) >= 4 /\ data[1] = ESC_BYTE /\ data[2] = 91
              /\ u >= 4
              /\ \A i \in 3..(u - 1) : data[i] < 128
              /\ ParseU32(parts[1]) >= 0
    IN  [ok |-> ok,
         codepoint |-> IF ok THEN ParseU32(parts[1]) ELSE 0,
         modifiers |-> IF ok /\ Len(parts) >= 2 /\ ParseU32(parts[2]) >= 0
                       THEN ParseU32(parts[2]) ELSE 1,
         consumed |-> u]

\* Keybind::matches_kitty: the bytes consumed, 0 for None.
MatchesKitty(kb, bytes) ==
    LET p == CsiU(bytes)
    IN  IF /\ p.ok
           /\ p.codepoint = kb.c
           /\ p.modifiers = (IF kb.mod = "Alt" THEN 3 ELSE 5)
        THEN p.consumed ELSE 0

\* Keybind::matches: the enhanced encoding first, then the legacy one.
Matches(kb, bytes) ==
    IF MatchesKitty(kb, bytes) # 0 THEN MatchesKitty(kb, bytes)
    ELSE IF kb.mod = "Alt"
         THEN IF Len(bytes) >= 2 /\ bytes[1] = 27 /\ bytes[2] = kb.c % 256
              THEN 2 ELSE 0
         ELSE IF bytes # <<>> /\ bytes[1] = (kb.c % 256) % 32
              THEN 1 ELSE 0

\* A process that forgets the pending ESC instead of putting it in front.
ProcessForgetful(pending, kbs, bytes) ==
    LET hits == {i \in 1..Len(kbs) : Matches(kbs[i].kb, bytes) # 0}
        first == CHOOSE i \in hits : \A j \in hits : i <= j
    IN  IF bytes = <<>>
        THEN [kind |-> "Passthrough", bytes |-> <<>>, pending |-> FALSE]
        ELSE IF hits # {}
        THEN [kind |-> kbs[first].action, bytes |-> <<>>, pending |-> FALSE]
        ELSE IF bytes = <<ESC_BYTE>>
        THEN [kind |-> "NeedMore", bytes |-> <<>>, pending |-> TRUE]
        ELSE [kind |-> "Passthrough", bytes |-> bytes, pending |-> FALSE]

\* A process that passes a matched key through instead of returning its action.
ProcessLeakingKey(pending, kbs, bytes) ==
    LET eff == IF pending THEN <<ESC_BYTE>> \o bytes ELSE bytes
    IN  IF bytes = <<>>
        THEN [kind |-> "Passthrough",
              bytes |-> IF pending THEN <<ESC_BYTE>> ELSE <<>>,
              pending |-> FALSE]
        ELSE IF eff = <<ESC_BYTE>>
        THEN [kind |-> "NeedMore", bytes |-> <<>>, pending |-> TRUE]
        ELSE [kind |-> "Passthrough", bytes |-> eff, pending |-> FALSE]

\* InputProcessor::process: the result and the new pending_escape.
Process(pending, kbs, bytes) ==
    LET eff == IF pending THEN <<ESC_BYTE>> \o bytes ELSE bytes
        hits == {i \in 1..Len(kbs) : Matches(kbs[i].kb, eff) # 0}
        first == CHOOSE i \in hits : \A j \in hits : i <= j
    IN  IF bytes = <<>>
        THEN [kind |-> "Passthrough",
              bytes |-> IF pending THEN <<ESC_BYTE>> ELSE <<>>,
              pending |-> FALSE]
        ELSE IF hits # {}
        THEN [kind |-> kbs[first].action, bytes |-> <<>>, pending |-> FALSE]
        ELSE IF eff = <<ESC_BYTE>>
        THEN [kind |-> "NeedMore", bytes |-> <<>>, pending |-> TRUE]
        ELSE [kind |-> "Passthrough", bytes |-> eff, pending |-> FALSE]

\* A timeout_escape that clears the state and passes nothing through.
TimeoutEscapeSilent(pending) == <<>>

\* InputProcessor::timeout_escape: the bytes of its Passthrough.
TimeoutEscape(pending) == IF pending THEN <<ESC_BYTE>> ELSE <<>>

ToLower(c) == IF c \in 65..90 THEN c + 32 ELSE c
ToUpper(c) == IF c \in 97..122 THEN c - 32 ELSE c

\* The Ctrl arm for printable ASCII that is no letter, kitty.rs:245-268.
CtrlSymbol(c, alt) ==
    CASE c = 91 -> <<27>>
      [] c = 92 -> <<28>>
      [] c = 93 -> <<29>>
      [] c \in {94, 54} -> <<30>>
      [] c \in {95, 45} -> <<31>>
      [] c \in {64, 50} -> <<0>>
      [] OTHER -> (IF alt THEN <<27>> ELSE <<>>) \o <<c>>

\* A translation that leaves the span's terminator behind the key.
TranslateCsiUKeepingU(data) ==
    [ok |-> CsiU(data).ok, out |-> <<CsiU(data).codepoint % 256, 117>>,
     consumed |-> CsiU(data).consumed]

\* translate_csi_u_to_traditional: ok, the translation and the bytes consumed.
TranslateCsiU(data) ==
    LET p == CsiU(data)
        bits == IF p.modifiers = 0 THEN 0 ELSE p.modifiers - 1
        shift == bits % 2 = 1
        alt == (bits \div 2) % 2 = 1
        ctrl == (bits \div 4) % 2 = 1
        esc == IF alt THEN <<27>> ELSE <<>>
        c == p.codepoint
        letter == c \in 65..90 \/ c \in 97..122
        out ==
            CASE c = 27 -> <<27>>
              [] c = 13 -> esc \o <<13>>
              [] c = 9 -> IF shift THEN esc \o <<27, 91, 90>> ELSE esc \o <<9>>
              [] c = 127 -> esc \o (IF ctrl THEN <<8>> ELSE <<127>>)
              [] letter /\ ctrl -> esc \o <<ToLower(c) % 32>>
              [] letter /\ ~ctrl /\ alt ->
                    <<27, IF shift THEN ToUpper(c) ELSE ToLower(c)>>
              [] OTHER ->
                    IF ctrl THEN CtrlSymbol(c, alt)
                    ELSE IF alt THEN <<27, c>> ELSE <<c>>
    IN  IF p.ok /\ data[3] \notin {62, 60, 61, 63} /\ c < 128
        THEN [ok |-> TRUE, out |-> out, consumed |-> p.consumed]
        ELSE [ok |-> FALSE, out |-> <<>>, consumed |-> 0]

\* translate_all_csi_u
RECURSIVE TranslateAll(_)
TranslateAll(data) ==
    IF data = <<>> THEN <<>>
    ELSE LET t == TranslateCsiU(data)
         IN  IF Len(data) >= 2 /\ data[1] = 27 /\ data[2] = 91 /\ t.ok
             THEN t.out \o TranslateAll(SubSeq(data, t.consumed + 1, Len(data)))
             ELSE <<data[1]>> \o TranslateAll(Tail(data))

\* What a terminal sends. A number in decimal digits:
RECURSIVE Decimal(_)
Decimal(n) ==
    IF n < 10 THEN <<48 + n>> ELSE Decimal(n \div 10) \o <<48 + (n % 10)>>

\* the enhanced encoding of a key, ESC [ codepoint ; modifiers u, with the
\* modifiers left out when there are none (tap-config lib.rs:239-263 and
\* kitty.rs:310-350 have examples of both),
Enhanced(cp, mods) ==
    <<27, 91>> \o Decimal(cp)
        \o (IF mods = 1 THEN <<>> ELSE <<59>> \o Decimal(mods)) \o <<117>>

\* and the legacy encoding of a keybind: ESC and the character for Alt, the
\* character masked with 0x1F for Ctrl (tap-config lib.rs:221-236).
Legacy(kb) == IF kb.mod = "Alt" THEN <<27, kb.c>> ELSE <<kb.c % 32>>

\* The modifier value of a keybind's enhanced encoding.
ModsOf(kb) == IF kb.mod = "Alt" THEN 3 ELSE 5

\* The keybinds a configuration is given in a run: "Alt-e", "Ctrl-e", "Alt-["
\* and "Ctrl-[", as Keybind::parse (tap-config lib.rs:100-116) returns them.
BoundKeys == {[mod |-> m, c |-> c] : m \in {"Alt", "Ctrl"}, c \in {101, 91}}

\* Keys typed in a run: the letters a, e and u plain and with Shift, Alt, Ctrl
\* and Ctrl+Alt; Escape, Enter, Tab, Shift+Tab, Backspace; Ctrl with the
\* symbols [ \ ] ^ _ @.
TypedKeys ==
    {[cp |-> c, mods |-> m] : c \in {97, 101, 117}, m \in {1, 2, 3, 5, 7}}
    \cup {[cp |-> c, mods |-> 1] : c \in {27, 13, 9, 127}}
    \cup {[cp |-> 9, mods |-> 2]}
    \cup {[cp |-> c, mods |-> 5] : c \in {91, 92, 93, 94, 95, 64}}

\* Other sequences a terminal sends: the cursor key Up (ESC [ A); Ctrl+Up
\* with the letter u typed behind it (ESC [ 1 ; 5 A u); an enhanced key
\* between two plain letters; and the replies of the keyboard protocol's
\* negotiation, CSI ? 1 u, CSI > 1 u, CSI < 1 u and CSI = 1 u.
OtherSequences ==
    {<<27, 91, 65>>, <<27, 91, 49, 59, 53, 65, 117>>,
     <<98>> \o Enhanced(97, 1) \o <<98>>}
    \cup {<<27, 91, c, 49, 117>> : c \in {63, 62, 60, 61}}

\* What one stdin read returns in a run: a lone ESC, a plain letter, the
\* legacy or the enhanced encoding of a bound key, the enhanced encoding of
\* a typed key, a bound key with a letter behind it, or another sequence.
KeyInputs ==
    {<<ESC_BYTE>>, <<97>>}
    \cup {Legacy(kb) : kb \in BoundKeys}
    \cup {Enhanced(kb.c, ModsOf(kb)) : kb \in BoundKeys}
    \cup {Enhanced(k.cp, k.mods) : k \in TypedKeys}
    \cup {Legacy(kb) \o <<97>> : kb \in BoundKeys}
    \cup OtherSequences

\* The streams after process(bytes) has returned r.
Streamed(st, bytes, r) ==
    [fed |-> st.fed \o bytes,
     passed |-> IF r.kind = "Passthrough" THEN st.passed \o r.bytes
                ELSE st.passed,
     acted |-> st.acted \/ r.kind \notin {"Passthrough", "NeedMore"}]

\* The attached loop's stdin branch, lib.rs:672-734: the read is classified;
\* a Passthrough that is not empty is translated and written to the master.
StdinRead(bytes) ==
    /\ nreads < MaxReads
    /\ nreads' = nreads + 1
    /\ LET r == Process(pending_escape, keybinds, bytes)
       IN  /\ pending_escape' = r.pending
           /\ classified' = [call |-> "process", input |-> bytes,
                             pending |-> pending_escape,
                             kind |-> r.kind, bytes |-> r.bytes]
           /\ stream' = Streamed(stream, bytes, r)
           /\ masterIn' =
                IF r.kind = "Passthrough" /\ r.bytes # <<>>
                THEN Append(masterIn,
                            [by |-> "stdin", data |-> TranslateAll(r.bytes)])
                ELSE masterIn
    /\ elapsed' = 0
    /\ UNCHANGED <<cfgDetached, hpc, loop, lstep, batch, procAlive, childAlive,
                   masterOpen, masterOut, produced, plan, inputQ, enqueued,
                   parser, sbWriter, slot, session_ended, registry, sockFile,
                   spc, winsize, nreq, hs, rs, peerOpen, inb, bq, och, last,
                   sub, fin, dropped, cap, lag, outs, subAt, skipped, regVars,
                   termVars, exitVars, keybinds, screenVars>>

\* Time passes while the select waits with the escape timer armed.
Tick ==
    /\ pending_escape /\ elapsed < EscapeTicks
    /\ elapsed' = elapsed + 1
    /\ UNCHANGED <<protoVars, regVars, termVars, exitVars, keybinds,
                   pending_escape, classified, nreads, stream, screenVars>>

\* The timer branch, lib.rs:740-748: the sleep created by this select, armed
\* only while an escape is pending, has run for the whole timeout.
EscapeTimer ==
    /\ pending_escape /\ elapsed = EscapeTicks
    /\ masterIn' = Append(masterIn,
          [by |-> "timer",
           data |-> TranslateAll(TimeoutEscape(pending_escape))])
    /\ pending_escape' = FALSE
    /\ stream' = [stream EXCEPT !.passed = @ \o TimeoutEscape(pending_escape)]
    /\ elapsed' = 0
    /\ UNCHANGED <<cfgDetached, hpc, loop, lstep, batch, procAlive, childAlive,
                   masterOpen, masterOut, produced, plan, inputQ, enqueued,
                   parser, sbWriter, slot, session_ended, registry, sockFile,
                   spc, winsize, nreq, hs, rs, peerOpen, inb, bq, och, last,
                   sub, fin, dropped, cap, lag, outs, subAt, skipped, regVars,
                   termVars, exitVars, keybinds, classified, nreads, screenVars>>

\* Another branch of the select completes, a master read (lib.rs:648-670) or
\* a buffer from the input channel (lib.rs:735-739): the loop comes round and
\* the next select creates a new sleep. What those branches read and write
\* is not followed here.
LoopOtherBranch ==
    /\ elapsed' = 0
    /\ UNCHANGED <<protoVars, regVars, termVars, exitVars, keybinds,
                   pending_escape, classified, nreads, stream, screenVars>>

InputNext ==
    \/ \E b \in KeyInputs : StdinRead(b)
    \/ Tick
    \/ EscapeTimer
    \/ LoopOtherBranch

InputInit ==
    /\ InitHost(0, BROADCAST_CHANNEL_SIZE, {PlainExit})
    /\ ~cfgDetached
    /\ keybinds \in {<<[kb |-> k, action |-> "OpenEditor"]>> : k \in BoundKeys}

\* The input specification: the attached loop's handling of stdin, with the
\* classifier, the translator and the escape timer.
InputSpec == InputInit /\ [][InputNext]_vars

\* The same with time passing and an expired timer being noticed.
InputFairSpec == InputSpec /\ WF_vars(Tick) /\ WF_vars(EscapeTimer)

\* ---------------------------------------------------- the classifier alone
\* InputProcessor as its callers may use it: process with any buffer, the
\* empty one included, and timeout_escape in either state.

ClassifierInputs == {<<>>, <<101>>, <<ESC_BYTE, ESC_BYTE>>} \cup KeyInputs

CallProcess(bytes) ==
    /\ nreads < MaxCalls
    /\ nreads' = nreads + 1
    /\ LET r == Process(pending_escape, keybinds, bytes)
       IN  /\ pending_escape' = r.pending
           /\ classified' = [call |-> "process", input |-> bytes,
                             pending |-> pending_escape,
                             kind |-> r.kind, bytes |-> r.bytes]
           /\ stream' = Streamed(stream, bytes, r)
    /\ UNCHANGED <<protoVars, regVars, termVars, exitVars, keybinds, elapsed,
                   screenVars>>

CallTimeoutEscape ==
    /\ nreads < MaxCalls
    /\ nreads' = nreads + 1
    /\ pending_escape' = FALSE
    /\ classified' = [call |-> "timeout_escape", input |-> <<>>,
                      pending |-> pending_escape, kind |-> "Passthrough",
                      bytes |-> TimeoutEscape(pending_escape)]
    /\ stream' = [stream EXCEPT !.passed = @ \o TimeoutEscape(pending_escape)]
    /\ UNCHANGED <<protoVars, regVars, termVars, exitVars, keybinds, elapsed,
                   screenVars>>

ClassifierNext ==
    \/ \E b \in ClassifierInputs : CallProcess(b)
    \/ CallTimeoutEscape

\* The classifier specification: one InputProcessor and the calls made on it.
ClassifierSpec == InputInit /\ [][ClassifierNext]_vars

\* ------------------------------------------------- the scrollback emulator
\* ScrollbackBuffer (scrollback.rs:5-60) on the vt100 parser it wraps, for
\* output made of single cells, CR LF and the alternate-screen switch. A cell
\* is the number of the append that wrote it.

\* An active grid that is the main grid whatever the mode.
ActiveGridMain(s) == "main"

\* The grid the emulator draws on and shows: the alternate grid while the
\* alternate screen is active.
ActiveGrid(s) == IF s.alt THEN "alternate" ELSE "main"

\* One printable character at the cursor.
PutCell(g, id) ==
    LET r == g.pos[1]
        c == g.pos[2]
        row == g.rows[r]
        new == IF c <= Len(row) THEN [row EXCEPT ![c] = id]
               ELSE row \o [i \in 1..(c - Len(row) - 1) |-> 0] \o <<id>>
    IN  [g EXCEPT !.rows[r] = new, !.pos = <<r, c + 1>>]

\* CR LF on grid g: column 1 of the next row; on the last row the grid scrolls
\* and its top row leaves it.
CrLf(g) ==
    IF g.pos[1] < ScreenRows THEN [g EXCEPT !.pos = <<g.pos[1] + 1, 1>>]
    ELSE [g EXCEPT !.rows = [r \in 1..ScreenRows |->
                                IF r < ScreenRows THEN g.rows[r + 1] ELSE <<>>],
                   !.pos = <<ScreenRows, 1>>]

\* The row that scrolls off the main grid is kept, up to the cap.
KeepRow(sb, row) ==
    LET all == Append(sb, row)
    IN  IF Len(all) > ScrollbackLines THEN Tail(all) ELSE all

\* ScrollbackBuffer::push of one item: "text" is a printable character,
\* "line" a character followed by CR LF, "enter" is CSI ? 1049 h (save the
\* cursor, clear the alternate grid, switch to it) and "leave" CSI ? 1049 l
\* (switch to the main grid, restore its cursor).
PushItem(s, item, id) ==
    LET t == [s EXCEPT !.some = TRUE]
        on == ActiveGrid(t)
        g == t[on]
        scrolls == item = "line" /\ g.pos[1] = ScreenRows
    IN  CASE item = "text" -> [t EXCEPT ![on] = PutCell(g, id)]
          [] item = "line" ->
                [t EXCEPT ![on] = CrLf(PutCell(g, id)),
                          !.scrollback =
                              IF scrolls /\ on = "main"
                              THEN KeepRow(t.scrollback, PutCell(g, id).rows[1])
                              ELSE t.scrollback]
          [] item = "enter" ->
                [t EXCEPT ![on].saved = g.pos,
                          !.alternate = BlankGrid,
                          !.alt = TRUE]
          [] item = "leave" ->
                [t EXCEPT !.main.pos = t.main.saved, !.alt = FALSE]

\* Screen::contents: the rows of the grid in view, without the blank rows at
\* the end. ScrollbackBuffer never scrolls the view back, so the rows in view
\* are the grid's own.
RECURSIVE TrimBlank(_)
TrimBlank(rows) ==
    IF rows # <<>> /\ rows[Len(rows)] = <<>>
    THEN TrimBlank(SubSeq(rows, 1, Len(rows) - 1)) ELSE rows

\* ScrollbackBuffer::get_lines(None), as the list of its lines.
ScreenLines(s) ==
    IF s.some THEN TrimBlank(s[ActiveGrid(s)].rows) ELSE <<>>

\* ScrollbackBuffer::cursor_position: (0, 0) without a parser, else the
\* cursor of the grid in view, counted from zero.
ScreenCursor(s) ==
    IF s.some THEN <<s[ActiveGrid(s)].pos[1] - 1, s[ActiveGrid(s)].pos[2] - 1>>
    ELSE <<0, 0>>

\* A query that builds the parser as push does.
QueriedEnsuring(s) == [s EXCEPT !.some = TRUE]

\* The buffer after get_lines or cursor_position: both take &self and read
\* self.parser without building it.
Queried(s) == s

ScreenGetLines ==
    /\ got.n < MaxQueries
    /\ got' = [call |-> "get_lines", lines |-> ScreenLines(screen),
               pos |-> <<0, 0>>, n |-> got.n + 1]
    /\ screen' = Queried(screen)
    /\ UNCHANGED <<protoVars, regVars, termVars, exitVars, inputVars, pushes,
                   snap>>

ScreenCursorPosition ==
    /\ got.n < MaxQueries
    /\ got' = [call |-> "cursor_position", lines |-> <<>>,
               pos |-> ScreenCursor(screen), n |-> got.n + 1]
    /\ screen' = Queried(screen)
    /\ UNCHANGED <<protoVars, regVars, termVars, exitVars, inputVars, pushes,
                   snap>>

ScreenPush(item) ==
    /\ Len(pushes) < MaxPushes
    /\ got' = NoQuery
    /\ pushes' = Append(pushes, item)
    /\ screen' = PushItem(screen, item, Len(pushes) + 1)
    /\ snap' = CASE item = "enter" /\ ~screen.alt ->
                        [valid |-> TRUE, lines |-> ScreenLines(screen)]
                 [] item \in {"text", "line"} /\ ~screen.alt ->
                        [valid |-> FALSE, lines |-> <<>>]
                 [] OTHER -> snap
    /\ UNCHANGED <<protoVars, regVars, termVars, exitVars, inputVars>>

ScreenNext ==
    \/ \E item \in {"text", "line", "enter", "leave"} : ScreenPush(item)
    \/ ScreenGetLines
    \/ ScreenCursorPosition

ScreenInit == InitWith(0) /\ ~cfgDetached

\* The screen specification: one ScrollbackBuffer and what is appended to it.
ScreenSpec == ScreenInit /\ [][ScreenNext]_vars

\* ------------------------------------------------------------ the claims

\* The host has returned RunResult::Detached after the Detach keybind.
Detached == hpc \in {"detach_returned", "detach_exited"}

\* The bytes of the first j batches the child writes, in order.
RECURSIVE Stream(_)
Stream(j) == IF j = 0 THEN <<>> ELSE Stream(j - 1) \o BatchBytes(j)

\* Connection c's Attach has been accepted and its attachment is not over:
\* it has claimed the slot and is about to be sent Attached, or its reader
\* task is running.
Attaching(c) == hs[c] = "claimed" \/ rs[c] = "run"

\* C1: at most one connection holds the attach slot. From the moment an
\* Attach claims the slot until its reader task ends, the slot names that
\* connection, so no other Attach finds it empty and is accepted: not even
\* between the claim and the Attached response.
C1_SingleAttachedClient ==
    /\ \A c \in Conns : Attaching(c) => slot = c
    /\ \A c, d \in Conns : Attaching(c) /\ Attaching(d) => c = d

\* C1 witness: one connection is attached and another connection's Attach has
\* been answered with the error.
C1_SecondAttachRefused ==
    \E c, d \in Conns :
        /\ c # d
        /\ rs[c] = "run" /\ last[c].type = "attached"
        /\ last[d].type = "error"
        /\ last[d].v = "session already has attached client"

\* C2: after the Detach keybind, for as long as the child runs or has output
\* unread, the PTY master stays open and the tail task owns it, reading output
\* into the scrollback while the socket server serves requests.
C2_DetachKeepsSessionRunning ==
    Detached /\ ~MasterEOF =>
        masterOpen /\ loop = "tail" /\ spc \in {"bind", "accept"}

\* C3: after the local user detaches with the child still running, the host
\* process is there to answer an Attach, and no connection with an Attach
\* waiting to be read is dropped unanswered.
C3_ReattachAfterDetach ==
    Detached /\ childAlive =>
        /\ procAlive
        /\ \A c \in Conns :
              (inb[c] # <<>> /\ Head(inb[c]).type = "attach") => hs[c] # "reset"

\* C4: on a connection not upgraded by Attach, no well-formed request is read
\* by the handler and left without a response.
C4_EveryRequestAnswered ==
    \A c \in Conns : dropped[c] = 0

\* C5: a connection is sent Output only if it has been sent Subscribed or has
\* been upgraded by Attach.
C5_OutputOnlyAfterSubscribe ==
    \A c \in Conns : last[c].type = "output" => sub[c] \/ rs[c] # "none"

\* C6: once the session has ended and the host has finished with it, the
\* session-ended flag is set and no connection has been dropped without the
\* final SessionEnded.
C6_SessionEndAnnounced ==
    hpc = "exited" =>
        /\ session_ended
        /\ \A c \in Conns : hs[c] = "reset" => fin[c]

\* C7: in every state, the session is listed in the registry if and only if
\* its socket file exists and its host process is alive.
C7_RegistryIffLive ==
    Listed(registry, SessionId) <=> (sockFile /\ procAlive)

\* The ids listed in a registry list.
ListedIds(sessions) == {sessions[i].id : i \in DOMAIN sessions}

\* The hosts that have started and have not stopped.
LiveHosts == {h \in Hosts : regLive[h] \in {"live", "detached"}}

C9_WholeBatchesOnly ==
    \A c \in Conns :
        /\ last[c].type \in {"scrollback", "attached"} =>
              \E j \in 0..produced : last[c].v = Stream(j)
        /\ last[c].type = "cursor" =>
              \E j \in 0..produced : last[c].v = <<0, Len(Stream(j))>>

\* C9 witness: a reply shows exactly the first batch while the loop is in the
\* middle of appending the second.
C9_ReplyDuringAppend ==
    /\ sbWriter /\ produced = 2
    /\ \E c \in Conns :
          /\ last[c].type \in {"scrollback", "cursor"}
          /\ last[c].v \in {Stream(1), <<0, Len(Stream(1))>>}

\* The number of the batch whose bytes are data.
BatchNo(data) == data[2] \div 2

\* The batches broadcast after connection c was sent Subscribed.
SinceSubscribed(c) == {BatchBytes(n) : n \in (subAt[c] + 1)..Broadcasts}

\* C11: the Output messages written to a connection are batches the host
\* broadcast, each once and in the order broadcast; and a subscribed
\* connection that never lagged has, by the time the server closes it with
\* SessionEnded, been sent every batch broadcast since it subscribed.
C11_SubscriberGetsEveryBatch ==
    \A c \in Conns :
        /\ \A i \in DOMAIN outs[c] :
              /\ BatchNo(outs[c][i]) \in 1..Broadcasts
              /\ outs[c][i] = BatchBytes(BatchNo(outs[c][i]))
        /\ \A i, j \in DOMAIN outs[c] :
              i < j => BatchNo(outs[c][i]) < BatchNo(outs[c][j])
        /\ (sub[c] /\ hs[c] = "done" /\ fin[c]) =>
              \A b \in SinceSubscribed(c) :
                  \E i \in DOMAIN outs[c] : outs[c][i] = b

\* C11, the part that concerns order alone: what a connection is sent is a
\* subsequence of what was broadcast, without duplicates, also when its
\* receiver is overrun.
C11_OutputsInOrder ==
    \A c \in Conns :
        /\ \A i \in DOMAIN outs[c] :
              /\ BatchNo(outs[c][i]) \in 1..Broadcasts
              /\ outs[c][i] = BatchBytes(BatchNo(outs[c][i]))
        /\ \A i, j \in DOMAIN outs[c] :
              i < j => BatchNo(outs[c][i]) < BatchNo(outs[c][j])

\* A connection that was overrun has skipped a batch, has since been sent a
\* later one, and its handler is still serving it.
C11_SkippedAndContinued ==
    \E c \in Conns :
        /\ hs[c] = "select" /\ ~lag[c]
        /\ \E i \in DOMAIN outs[c] :
              /\ i > 1
              /\ BatchNo(outs[c][i]) > BatchNo(outs[c][i - 1]) + 1

\* The buffers written to the master, in the order they were written.
MasterWrites == [i \in DOMAIN masterIn |-> masterIn[i].data]

\* C10: what has been written to the master, followed by what waits in the
\* input channel, is exactly what the socket handlers enqueued, in that order;
\* every write was made by a loop owning the master, and once the tail task
\* has written the attached loop never writes again.
C10_InputOnlyThroughChannel ==
    /\ MasterWrites \o inputQ = enqueued
    /\ \A i \in DOMAIN masterIn : masterIn[i].by \in {"attached", "tail"}
    /\ \A i, j \in DOMAIN masterIn :
          i < j /\ masterIn[i].by = "tail" => masterIn[j].by = "tail"

\* C10 witness: two buffers enqueued by socket clients have been written, the
\* first by the attached loop and the second by the tail task.
C10_TwoBuffersWritten ==
    /\ Len(masterIn) = 2
    /\ masterIn[1].by = "attached" /\ masterIn[2].by = "tail"
    /\ MasterWrites = enqueued

\* The process that took the terminal has left it: the host is past its
\* teardown, or the attach client has exited or returned an error.
TermLeft == termPc \in {"host_left", "client_left", "client_failed"}

\* C12: whenever the attached host or the attach client has left attached
\* mode, by whichever path, the terminal is back in the mode that was saved
\* (if one was saved) and no pushed keyboard protocol flag is left on it.
C12_TerminalRestoredOnEveryExit ==
    TermLeft => (orig_termios => termMode = "cooked") /\ kbFlags = 0

\* C12, the host alone: every break of the attached loop reaches the pop and
\* the restore.
C12_HostRestores ==
    termPc = "host_left" => (orig_termios => termMode = "cooked") /\ kbFlags = 0

\* The child was started and has terminated.
ChildGone ==
    hpc \notin {"init", "registered", "start_failed"} /\ ~childAlive

\* The wait result that reports the child's end: the last one of the run.
ChildEnd == waits[Len(waits)]

\* The child's exit code as a shell reports it.
ChildExitCode ==
    IF ChildEnd.kind = "Signaled" THEN 128 + ChildEnd.v ELSE ChildEnd.v

\* C13: once the child has exited and the host has done all it does about it,
\* the host process started by `start` has terminated with the child's exit
\* code, whether it was started attached or with --detached (an interactive
\* detach, which exits 0 beforehand, and a child reaped behind the host's
\* back set aside).
C13_HostExitsWithChildCode ==
    (/\ ChildGone
     /\ ~Detached
     /\ ChildEnd.kind \in {"Exited", "Signaled"}
     /\ ~ENABLED ExitNext)
    => ~procAlive /\ exit_status = ChildExitCode

\* C13, the attached start alone: run() returns Exited with the child's code.
C13_AttachedExitsWithChildCode ==
    hpc = "exited" /\ ChildEnd.kind \in {"Exited", "Signaled"}
    => exit_status = ChildExitCode

\* The first wait result that is not r-retried, for r a set of result kinds.
FirstNot(r) ==
    waits[CHOOSE i \in 1..Len(waits) :
            /\ waits[i].kind \notin r
            /\ \A j \in 1..(i - 1) : waits[j].kind \in r]

\* The code the claim gives a wait result.
CodeOf(res) ==
    CASE res.kind = "Exited" -> res.v
      [] res.kind = "Signaled" -> 128 + res.v
      [] OTHER -> 1

\* C14 as amended: the exit code is the raw code of an exited child, 128 plus
\* the signal number of a killed one and 1 when the wait fails with an error
\* other than EINTR; EINTR and a result that reports no termination (a
\* stopped child) are retried; and once the child has terminated the wait
\* returns.
C14_WaitCodeRetryingStops ==
    /\ hpc = "exited" => exit_status = CodeOf(FirstNot({"EINTR", "Stopped"}))
    /\ procAlive /\ hpc = "wait" /\ ~childAlive => ENABLED HostWaitExit

\* C14 as stated: only EINTR is retried, and every other result that reports
\* neither an exit nor a kill gives 1.
C14_WaitCodeOneForAnyOther ==
    hpc = "exited" => exit_status = CodeOf(FirstNot({"EINTR"}))

\* A host has exited with 128 + 9 after its wait was interrupted once.
C14_InterruptedThenKilled ==
    /\ hpc = "exited"
    /\ Len(waits) > 1 /\ waits[1].kind = "EINTR"
    /\ ChildEnd.kind = "Signaled"
    /\ exit_status = 128 + ChildEnd.v

\* C15: every message a handler has read that is not a servable request was
\* answered with an Error response: none was passed over in silence.
C15_UnserveableAnsweredWithError ==
    \A c \in Conns : skipped[c] = 0

\* C15, the Attach refused because the slot is occupied: the connection has
\* been sent Error and its handler is serving requests still.
C15_RefusedAttachKeepsServing ==
    \A c \in Conns :
        (last[c] = ErrorMsg("session already has attached client") /\ peerOpen[c]
         /\ procAlive /\ ~fin[c])
        => hs[c] = "select"

\* The last stdin read was classified from Idle and was the buffer b.
ReadInIdle(b) ==
    classified.call = "process" /\ ~classified.pending /\ classified.input = b

\* C16: for every keybind K bound to an action, the classifier returns that
\* action for K's legacy encoding and for K's enhanced encoding, and an
\* enhanced sequence with another codepoint or another modifier value is not
\* taken for K.
C16_KeybindMatchesItsEncodingsOnly ==
    \A i \in 1..Len(keybinds) :
        LET K == keybinds[i].kb
        IN  /\ ReadInIdle(Legacy(K)) \/ ReadInIdle(Enhanced(K.c, ModsOf(K)))
                => classified.kind = keybinds[i].action
            /\ \A k \in TypedKeys :
                  (ReadInIdle(Enhanced(k.cp, k.mods))
                   /\ (k.cp # K.c \/ k.mods # ModsOf(K)))
                  => classified.kind # keybinds[i].action

\* C16, the first half alone: a bound key's own encodings give its action.
C16_OwnEncodingsGiveAction ==
    \A i \in 1..Len(keybinds) :
        LET K == keybinds[i].kb
        IN  ReadInIdle(Legacy(K)) \/ ReadInIdle(Enhanced(K.c, ModsOf(K)))
                => classified.kind = keybinds[i].action

\* The legacy byte sequence of a typed key: Ctrl masks the character with
\* 0x1F, Alt puts ESC in front, Shift gives the upper-case letter, and
\* Shift+Tab is ESC [ Z.
LegacyKey(k) ==
    LET bits == k.mods - 1
        ctrl == (bits \div 4) % 2 = 1
        alt == (bits \div 2) % 2 = 1
        shift == bits % 2 = 1
    IN  IF k.cp = 9 /\ shift THEN <<27, 91, 90>>
        ELSE (IF alt THEN <<27>> ELSE <<>>)
             \o <<IF ctrl THEN k.cp % 32
                  ELSE IF shift THEN ToUpper(k.cp) ELSE k.cp>>

\* C17: when the enhanced encoding of a supported key is passed through, what
\* is written to the master is exactly the key's legacy byte sequence, and
\* the translation consumes the whole span up to and including the 'u'.
C17_EnhancedTranslatesToLegacy ==
    \A k \in TypedKeys :
        ReadInIdle(Enhanced(k.cp, k.mods)) /\ classified.kind = "Passthrough"
        => /\ masterIn[Len(masterIn)].data = LegacyKey(k)
           /\ TranslateCsiU(classified.input).consumed = Len(classified.input)

\* C17 without the shifted letters.
C17_UnshiftedTranslateToLegacy ==
    \A k \in TypedKeys :
        (ReadInIdle(Enhanced(k.cp, k.mods)) /\ classified.kind = "Passthrough"
         /\ ~(k.mods = 2 /\ k.cp \in 97..122))
        => /\ masterIn[Len(masterIn)].data = LegacyKey(k)
           /\ TranslateCsiU(classified.input).consumed = Len(classified.input)

\* C18: a lone ESC after which stdin delivers nothing more is eventually
\* written to the master by the escape timer, leaving the classifier in Idle,
\* whatever the other branches of the loop do meanwhile.
C18_LoneEscapeDelivered ==
    (pending_escape /\ nreads = MaxReads) ~> ~pending_escape

\* C18, what the timer writes when it does fire: one ESC byte each time.
C18_TimerWritesOneEscape ==
    \A i \in 1..Len(masterIn) :
        masterIn[i].by = "timer" => masterIn[i].data = <<ESC_BYTE>>

\* Only lines have been appended: n cells, each followed by CR LF.
OnlyLines == \A i \in 1..Len(pushes) : pushes[i] = "line"

\* C19: after more than the cap of lines, each ended by CR LF, get_lines(None)
\* is exactly the cap's worth of most recent lines, those that scrolled off
\* the screen included.
C19_ReturnsCapMostRecentLines ==
    OnlyLines /\ Len(pushes) > ScrollbackLines
    => ScreenLines(screen) =
          [i \in 1..ScrollbackLines |-> <<Len(pushes) - ScrollbackLines + i>>]

\* C19, what is returned instead: the rows of the visible screen.
C19_ReturnsVisibleRows ==
    OnlyLines /\ Len(pushes) >= ScreenRows
    => ScreenLines(screen) =
          [i \in 1..(ScreenRows - 1) |-> <<Len(pushes) - (ScreenRows - 1) + i>>]

\* The appends made since the alternate screen was last entered.
SinceEnter ==
    LET e == CHOOSE i \in 1..Len(pushes) :
                pushes[i] = "enter" /\ \A j \in (i + 1)..Len(pushes) : pushes[j] # "enter"
    IN  (e + 1)..Len(pushes)

C21_QueriesReadOnly ==
    /\ [](pushes = <<>> =>
            /\ ~screen.some
            /\ ScreenLines(screen) = <<>> /\ ScreenCursor(screen) = <<0, 0>>
            /\ got.lines = <<>> /\ got.pos = <<0, 0>>)
    /\ [][pushes' = pushes =>
            /\ screen' = screen
            /\ got.call = "get_lines" /\ got'.call = "get_lines"
               => got'.lines = got.lines]_vars

\* get_lines was called twice after an append that left text on the screen.
C21_AskedTwiceAfterAppend ==
    got.call = "get_lines" /\ got.n = MaxQueries /\ got.lines # <<>>

\* The host is in one of its two steady states: the attached main loop, or
\* asleep in run_start after a --detached start.
HostSteady == procAlive /\ hpc \in {"loop", "sleeping"}

\* C22: while the host runs, the attached field of its registry entry is true
\* exactly while a terminal is attached to the session: the local terminal of
\* an attached start, or a socket client holding the attach slot.
C22_AttachedFieldTracksAttachment ==
    HostSteady =>
        \A i \in DOMAIN registry :
            registry[i].id = SessionId =>
                registry[i].attached = (loop = "attached" \/ slot # NoClient)

\* C22, the local terminal alone: the field is true in the attached main loop
\* and false after a --detached start, and a local detach keeps the entry
\* with the field false, until the session ends.
C22_AttachedFieldIsLocalTerminal ==
    /\ HostSteady =>
          \A i \in DOMAIN registry :
              registry[i].id = SessionId =>
                  registry[i].attached = (loop = "attached")
    /\ hpc = "detach_returned" =>
          /\ ~session_ended => Listed(registry, SessionId)
          /\ \A i \in DOMAIN registry :
                registry[i].id = SessionId => ~registry[i].attached

\* The step in which connection c's handler reads an Attach while the slot
\* has an occupant.
RejectsAttach(c) ==
    /\ hs[c] = "select" /\ inb[c] # <<>> /\ Head(inb[c]).type = "attach"
    /\ inb'[c] = Tail(inb[c])
    /\ slot # NoClient

\* C23: a rejected Attach changes nothing: the window size, the slot and its
\* occupant's handler, reader and output channel are as before, and the
\* rejected connection is neither occupant nor forwarding: it waits for its
\* next request, unless its peer has gone or the session has ended.
C23_RejectedAttachChangesNothing ==
    [][\A c \in Conns :
          RejectsAttach(c) =>
              /\ winsize' = winsize /\ slot' = slot /\ och' = och
              /\ hs'[slot] = hs[slot] /\ rs' = rs /\ outs' = outs
              /\ bq'[slot] = bq[slot]
              /\ hs'[c] \in {"select", "done"}
              /\ (peerOpen[c] /\ ~session_ended) =>
                    /\ hs'[c] = "select"
                    /\ last'[c] = ErrorMsg("session already has attached client")]_vars

\* One connection forwards as the occupant, with the window size it asked
\* for, and another has been refused and waits for its next request.
C23_RefusedBesideOccupant ==
    \E c, d \in Conns :
        /\ slot = c /\ hs[c] = "fwd" /\ winsize = SetWindowSize(AttachWinsize)
        /\ d # c /\ hs[d] = "select" /\ peerOpen[d]
        /\ last[d] = ErrorMsg("session already has attached client")

\* C24: an Attach is accepted only while no local terminal is attached: while
\* the host is in its attached main loop the slot stays empty and the PTY
\* keeps the window size the host gave it.
C24_NoAttachWhileLocallyAttached ==
    (procAlive /\ hpc = "loop" /\ loop = "attached") =>
        /\ slot = NoClient
        /\ winsize = DefaultWinsize

\* What a handler writes in answer to a request.
AnswerTypes == {"ok", "error", "attached", "scrollback", "cursor", "size",
                "subscribed"}

\* C25: Ended is terminal: from a state with the session-ended flag set no
\* step occupies the empty slot, enqueues input for the PTY, or answers a
\* request with anything but SessionEnded.
C25_EndedIsTerminal ==
    [][session_ended =>
          /\ slot = NoClient => slot' = NoClient
          /\ enqueued' = enqueued
          /\ \A c \in Conns :
                last'[c] # last[c] => last'[c].type \notin AnswerTypes]_vars

\* C25, for connections accepted or returning to the top of their loop after
\* the flag was set: the handler sends SessionEnded and stops.
C25_LoopTopSeesFlag ==
    [][\A c \in Conns :
          (session_ended /\ hs[c] # "select" /\ hs'[c] = "select") => FALSE]_vars

\* C26: when the session has ended and the tail loop has finished its
\* teardown, no connection still holds the attach slot with its output
\* forwarder and its reader running.
C26_SlotClearedAtSessionEnd ==
    (procAlive /\ session_ended /\ lstep = "done") =>
        \A c \in Conns : ~(slot = c /\ hs[c] = "fwd" /\ rs[c] = "run")

\* C26, what does clear the slot: with the flag set, the occupant's reader
\* stops at its next read, and the slot is empty from then on.
C26_ReaderClearsSlotAtNextRead ==
    [][\A c \in Conns :
          (session_ended /\ rs[c] = "run" /\ inb'[c] # inb[c]
             /\ Len(inb'[c]) < Len(inb[c]))
          => rs'[c] = "done" /\ slot' = NoClient]_vars

\* C27: once the session-ended flag is set the accept loop terminates without
\* a further connection: it is never left waiting in accept with the flag
\* set, the socket file removed and no connection in the backlog, a state in
\* which nothing can make accept return.
C27_AcceptLoopStopsAtSessionEnd ==
    (procAlive /\ session_ended /\ ~sockFile
       /\ \A c \in Conns : hs[c] # "backlog")
    => spc # "accept"

\* C27, second half: no connection is accepted once the flag is set.
C27_NoAcceptAfterFlag ==
    [][session_ended =>
          \A c \in Conns :
              hs[c] = "backlog" => hs'[c] \in {"backlog", "reset"}]_vars

\* C27, what the loop does: the first accept that returns after the flag was
\* set is the last, and the loop stops there.
C27_StopsAfterNextAccept ==
    [][\A c \in Conns :
          (session_ended /\ procAlive' /\ hs[c] = "backlog"
             /\ hs'[c] # "backlog")
          => spc' = "stopped"]_vars

\* C28: in Idle a read of the single byte ESC returns NeedMore, whatever key
\* the configuration binds.
C28_LoneEscapeNeedsMore ==
    ReadInIdle(<<ESC_BYTE>>) => classified.kind = "NeedMore"

\* C28, for the bindings whose legacy encoding is not the byte ESC itself:
\* NeedMore, and the classifier is in PendingEscape until the next read or
\* the timer.
C28_LoneEscapeNeedsMoreUnlessBound ==
    (ReadInIdle(<<ESC_BYTE>>)
       /\ \A i \in 1..Len(keybinds) : Legacy(keybinds[i].kb) # <<ESC_BYTE>>)
    => /\ classified.kind = "NeedMore"
       /\ Process(FALSE, keybinds, <<ESC_BYTE>>).pending

\* The last call was process(B) made in PendingEscape.
ProcessedPending == classified.call = "process" /\ classified.pending

\* What process(<<ESC>> \o B) returns from Idle, for the B of the last call.
FromIdle == Process(FALSE, keybinds, <<ESC_BYTE>> \o classified.input)

\* C29 as stated: in PendingEscape process(B) returns what process(ESC ++ B)
\* returns from Idle and leaves the classifier in Idle, for every buffer B,
\* the empty one included.
C29_PendingIsIdleOnEscPlusB ==
    ProcessedPending =>
        /\ classified.kind = FromIdle.kind /\ classified.bytes = FromIdle.bytes
        /\ ~pending_escape

\* C29 amended: so it is for every buffer B that is not empty; for the empty
\* buffer process returns Passthrough(ESC), where from Idle process(ESC)
\* returns NeedMore; either way the classifier is left in Idle.
C29_PendingIsIdleOnEscPlusNonEmptyB ==
    ProcessedPending =>
        /\ ~pending_escape
        /\ IF classified.input = <<>>
           THEN classified.kind = "Passthrough" /\ classified.bytes = <<ESC_BYTE>>
           ELSE /\ classified.kind = FromIdle.kind
                /\ classified.bytes = FromIdle.bytes

\* In PendingEscape the byte 'e' arrived and, with Alt-e bound, the two
\* together were taken for the key.
C29_EscapeThenKey ==
    /\ ProcessedPending /\ classified.input = <<101>>
    /\ classified.kind = "OpenEditor"

\* C30: timeout_escape in PendingEscape passes exactly one ESC through and
\* leaves Idle; in Idle it passes nothing; and as long as no Action has been
\* returned, the bytes passed through, with the ESC still pending if there is
\* one, are the bytes that were given to process.
C30_EscapesNeitherLostNorDoubled ==
    /\ classified.call = "timeout_escape" =>
          /\ classified.kind = "Passthrough" /\ ~pending_escape
          /\ classified.bytes =
                IF classified.pending THEN <<ESC_BYTE>> ELSE <<>>
    /\ ~stream.acted =>
          stream.fed = stream.passed
                          \o (IF pending_escape THEN <<ESC_BYTE>> ELSE <<>>)

\* A pending ESC was ended by the timer after another byte had already been
\* passed through, and no Action was returned.
C30_TimedOutAfterPassthrough ==
    /\ classified.call = "timeout_escape" /\ classified.pending
    /\ ~stream.acted /\ Len(stream.fed) >= 2

\* The bytes the classifier looks at in the read that is being made: the
\* pending ESC, if any, and what stdin delivered.
EffectiveRead ==
    (IF pending_escape THEN <<ESC_BYTE>> ELSE <<>>) \o classified'.input

\* C31: a stdin read whose bytes begin with a bound key is answered with the
\* key's action, and a read answered with an action writes nothing to the
\* master, whether the key's own bytes, bytes that followed them or an ESC
\* that was pending, and leaves the classifier in Idle.
C31_ActionWritesNothing ==
    [][(nreads' = nreads + 1
        /\ (\/ classified'.kind = "OpenEditor"
            \/ \E i \in 1..Len(keybinds) :
                  Matches(keybinds[i].kb, EffectiveRead) # 0))
       => /\ classified'.kind = "OpenEditor"
          /\ masterIn' = masterIn
          /\ ~pending_escape']_vars

\* A bound key arrived with another byte behind it in the same read and was
\* answered with the action, and nothing has been written to the master.
C31_KeyWithTrailingByte ==
    /\ classified.kind = "OpenEditor"
    /\ classified.input = Legacy(keybinds[1].kb) \o <<97>>
    /\ masterIn = <<>>

\* The last stdin read was passed through, and the last write to the master
\* is what the translator made of it.
PassedThrough ==
    /\ classified.call = "process" /\ classified.kind = "Passthrough"
    /\ classified.bytes # <<>>
    /\ masterIn # <<>> /\ masterIn[Len(masterIn)].by = "stdin"

Written == masterIn[Len(masterIn)].data

IsDigits(str) == str # <<>> /\ \A i \in 1..Len(str) : str[i] \in 48..57

\* ESC [ <decimal codepoint> [ ; <decimal modifiers> ] u, and nothing else.
ExactSpan(str) ==
    /\ Len(str) >= 4 /\ str[1] = 27 /\ str[2] = 91 /\ str[Len(str)] = 117
    /\ LET body == SubSeq(str, 3, Len(str) - 1)
       IN  \/ IsDigits(body)
           \/ \E k \in 1..Len(body) :
                 /\ body[k] = 59
                 /\ IsDigits(SubSeq(body, 1, k - 1))
                 /\ IsDigits(SubSeq(body, k + 1, Len(body)))

HasExactSpan(b) ==
    \E i \in 1..Len(b) : \E j \in i..Len(b) : ExactSpan(SubSeq(b, i, j))

\* C32: the translator changes only spans of the exact form: what is written
\* for a buffer that holds no such span is the buffer itself.
C32_OnlyExactSpansChanged ==
    (PassedThrough /\ ~HasExactSpan(classified.bytes))
    => Written = classified.bytes

\* C32, what holds: a buffer with no 'u' in it and a negotiation reply
\* (CSI ?, CSI >, CSI <, CSI = ... u) are written as they are, and the
\* letters around an enhanced key are copied in their places.
C32_NegotiationAndPlainBytesCopied ==
    PassedThrough =>
        /\ (Position(classified.bytes, 117) = 0
            \/ \E c \in {63, 62, 60, 61} :
                  classified.bytes = <<27, 91, c, 49, 117>>)
           => Written = classified.bytes
        /\ classified.bytes = <<98>> \o Enhanced(97, 1) \o <<98>>
           => Written = <<98, 97, 98>>

IsLetterU(k) ==
    LET bits == k.mods - 1
        shift == bits % 2 = 1
        alt == (bits \div 2) % 2 = 1
        ctrl == (bits \div 4) % 2 = 1
    IN  ~ctrl /\ (k.cp = 117 \/ (k.cp = 85 /\ alt /\ ~shift))

C34_RawModeWhileLoopRuns ==
    (termPc = "host_loop" /\ orig_termios) => termMode = "raw"

\* C34, what holds: the editor call, failed or not, never ends the loop.
C34_LoopContinuesAfterEditor ==
    [][(termPc = "host_loop" /\ termMode' # termMode)
       => termPc' = "host_loop"]_vars

\* The attached loop was left because a write of passthrough input to the
\* master failed.
WriteFailed == termBreak = "master_write_error"

\* C35: after a failed write of passthrough input to the master the host's
\* teardown never waits on a running child, and the host exits with code 1.
C35_WriteFailureExitsOneUnblocked ==
    /\ (WriteFailed /\ procAlive /\ hpc = "wait") => ENABLED HostWaitExit
    /\ (WriteFailed /\ ~procAlive) => exit_status = 1

\* C35, the exit code alone.
C35_WriteFailureExitsOne ==
    (WriteFailed /\ ~procAlive) => exit_status = 1

\* C35, what holds: the host leaves the loop and exits with the code of the
\* child it has waited for.
C35_WriteFailureExitsWithChildCode ==
    (WriteFailed /\ hpc = "exited" /\ ChildEnd.kind \in {"Exited", "Signaled"})
    => exit_status = ChildExitCode

\* What a step takes off the front of connection c's inbound bytes.
Consumed(c) == SubSeq(inb[c], 1, Len(inb[c]) - Len(inb'[c]))

\* The buffers of the Input requests among msgs, in order.
InputData(msgs) ==
    LET ins == SelectSeq(msgs, LAMBDA m : m.type = "input")
    IN  [i \in 1..Len(ins) |-> ins[i].data]

\* C36: however many requests one socket read returns, each of them is handled:
\* before the Attach upgrade no well-formed request is skipped, and after it the
\* reader task forwards every Input it has read to the input channel, in order.
C36_EveryReadRequestHandled ==
    [][\A c \in Conns :
          (procAlive' /\ Len(inb'[c]) < Len(inb[c])) =>
             /\ hs[c] = "select" => dropped'[c] = dropped[c]
             /\ (rs[c] = "run" /\ InputRxAlive /\ ~session_ended) =>
                   enqueued' = enqueued \o InputData(Consumed(c))]_vars

\* C36, after the upgrade alone.
C36_ReaderForwardsEveryInput ==
    [][\A c \in Conns :
          (/\ procAlive' /\ Len(inb'[c]) < Len(inb[c])
           /\ rs[c] = "run" /\ InputRxAlive /\ ~session_ended) =>
             enqueued' = enqueued \o InputData(Consumed(c))]_vars

\* C36, what holds: a read that returns exactly one request is handled, and
\* an Input read alone by the reader task is forwarded.
C36_SingleRequestReadsHandled ==
    [][\A c \in Conns :
          (procAlive' /\ Len(inb'[c]) = Len(inb[c]) - 1
           /\ Head(inb[c]).type \in RequestTypes) =>
             /\ hs[c] = "select" => dropped'[c] = dropped[c]
             /\ (rs[c] = "run" /\ InputRxAlive /\ ~session_ended) =>
                   enqueued' = enqueued \o InputData(Consumed(c))]_vars

\* Some host is inside modify_sessions_file.
Modifying == \E h \in Hosts : regHosts[h] # "idle"

\* C37: a listing that reads the registry file while a host is inside
\* modify_sessions_file succeeds, whichever socket files exist.
C37_UnlockedListingSucceeds ==
    Modifying =>
        \A sockets \in SUBSET Hosts :
            ListSessions(regFile, RegFileExists, sockets).ok

\* C37, what holds: a listing succeeds and returns the entries of the file
\* that have a socket whenever the file is missing or holds a written list.
C37_ListingReadsWrittenList ==
    (regFile.json \/ ~RegFileExists) =>
        \A sockets \in SUBSET Hosts :
            LET l == ListSessions(regFile, RegFileExists, sockets)
            IN  /\ l.ok
                /\ \A i \in DOMAIN l.sessions : l.sessions[i].id \in sockets
                /\ ListedIds(l.sessions) = ListedIds(ParseSessions(regFile)) \cap sockets

\* C37, the rewrite alone: a listing succeeds while a host that found a list
\* in the file is between truncating it and writing it back.
C37_ListingSucceedsDuringRewrite ==
    (\E h \in Hosts : regHosts[h] = "truncated" /\ regOp[h] # "insert") =>
        \A sockets \in SUBSET Hosts :
            ListSessions(regFile, RegFileExists, sockets).ok

\* C38: whenever the attach slot is occupied, its occupant is a connection
\* whose handler is in attach mode, answering the Attach or forwarding output.
C38_OccupiedSlotHasForwarder ==
    procAlive =>
        \A c \in Conns : slot = c => hs[c] \in {"claimed", "fwd"}

\* C38, what holds: the occupant of the slot is a connection whose Attach is
\* being answered or whose reader task is still running.
C38_OccupiedSlotHasReader ==
    procAlive =>
        \A c \in Conns : slot = c => hs[c] = "claimed" \/ rs[c] = "run"

\* The number of the last batch connection c has been shown: the batches in
\* its Attached snapshot, or the batch of the last Output written to it.
SentUpTo(c) ==
    IF last[c].type = "attached" THEN Len(last[c].v) \div 2
    ELSE BatchNo(last[c].v)

\* Connection c has been sent Attached and its forwarder is running.
Forwarding(c) == hs[c] = "fwd" /\ last[c].type \in {"attached", "output"}

\* C39: for an attached connection the batches waiting in its output channel
\* are exactly the ones that follow what it has been shown, each once and in
\* order, and once the loop has finished with a batch nothing the child wrote
\* is missing from the snapshot and the Outputs together.
C39_SnapshotThenEveryBatchOnce ==
    \A c \in Conns :
        Forwarding(c) =>
           /\ \A i \in DOMAIN och[c] : BatchNo(och[c][i]) = SentUpTo(c) + i
           /\ (slot = c /\ loop # "none" /\ lstep = "select") =>
                 SentUpTo(c) + Len(och[c]) = Broadcasts

\* C39, repetition alone: no batch of the snapshot is also waiting to be sent
\* as an Output.
C39_NoBatchTwice ==
    \A c \in Conns :
        Forwarding(c) =>
            \A i \in DOMAIN och[c] : BatchNo(och[c][i]) > SentUpTo(c)

\* C39, what holds: under the tail loop of a session started detached no
\* batch is left out; each is in the snapshot or posted to the connection.
C39_TailLeavesNoGap ==
    \A c \in Conns :
        (Forwarding(c) /\ cfgDetached /\ slot = c /\ loop = "tail"
         /\ lstep = "select") =>
            \A n \in 1..Broadcasts :
                n <= SentUpTo(c) \/ \E i \in DOMAIN och[c] : BatchNo(och[c][i]) = n

\* run() has returned an error from a step after the registration.
StartFailed == hpc = "start_failed"

\* C40: when startup has failed after the registration, the registry holds no
\* entry for the session.
C40_FailedStartLeavesNoEntry ==
    StartFailed => ~Listed(registry, SessionId)

\* C40, what holds: a failed start leaves no socket file, so the entry that
\* stays in the registry names a session nobody can connect to.
C40_FailedStartLeavesNoSocket ==
    StartFailed => ~sockFile /\ ~masterOpen /\ exit_status = 1

====
